---- MODULE Spec2Model ----
(***************************************************************************)
(* A model of the battle engine of pbat: Pokemon (stat calculation,        *)
(* effective stats, end-of-turn status damage), BattleEngine (damage       *)
(* formula, use_move, move effects, battle_turn) and                       *)
(* BattleSimulator.simulate_battle, from src/backend/pokemon_battle.py.    *)
(*                                                                         *)
(* Python floats are modelled by exact rationals <<n, d>>; int() of a      *)
(* non-negative float is \div.  random.random() < p is modelled by a draw  *)
(* from RandomDraws: "lo" is the value 0.0 and "hi" a value just below     *)
(* 1.0, so both outcomes occur exactly when the code can produce them.     *)
(* random.randint(1, 100) is drawn from its two extremes, and              *)
(* random.uniform(0.85, 1.0) from the percentages in RandomFactors.        *)
(***************************************************************************)
EXTENDS Integers, Sequences, FiniteSets, TLC

VARIABLES
    pokemon,      \* <<pokemon1, pokemon2>>: the two Pokemon objects of the battle
    engine,       \* BattleEngine: weather, weather_turns, terrain, terrain_turns
    pc,           \* position in simulate_battle / battle_turn
    turn_count,   \* simulate_battle's turn_count
    chosen,       \* <<move1, move2>> of the current turn
    order,        \* <<first, second>>: indices of the Pokemon acting first and second
    quick_claw,   \* <<quick_claw1, quick_claw2>> of the current turn
    winner,       \* simulate_battle's result
    battles,      \* number of simulate_battle calls started on this simulator
    ret           \* last value returned by a function called on its own; before a
                  \* Pokemon(...) call, the arguments of that call

vars == <<pokemon, engine, pc, turn_count, chosen, order, quick_claw, winner, battles, ret>>

----------------------------------------------------------------------------
(* Python values *)

None == <<>>

Some(v) == <<v>>

IsNone(x) == x = None

Val(x) == x[1]

EmptyDict == <<>>

Get(dict, key, default) == IF key \in DOMAIN dict THEN dict[key] ELSE default

Max(a, b) == IF a >= b THEN a ELSE b

Min(a, b) == IF a <= b THEN a ELSE b

Abs(a) == IF a < 0 THEN 0 - a ELSE a

RandomDraws == {"lo", "hi"}

\* random.random() < n/d for the draw u
RandomBelow(u, n, d) == IF u = "lo" THEN n > 0 ELSE n >= d

\* random.random() < chance for a rational chance
Chance(draw, chance) == RandomBelow(draw, chance[1], chance[2])

\* the draws of random.randint(1, 100) that are kept: its extremes
RandintLo == 1

RandintHi == 100

AccuracyDraws == {RandintLo, RandintHi}

\* random.uniform(0.85, 1.0), in percent
RandomFactorLo == 85

RandomFactorHi == 100

RandomFactors == {RandomFactorLo, RandomFactorHi}

----------------------------------------------------------------------------
(* Move names as character sequences, for Python's substring test *)

Chars ==
    "vine-whip" :> <<"v","i","n","e","-","w","h","i","p">> @@
    "poison-powder" :> <<"p","o","i","s","o","n","-","p","o","w","d","e","r">> @@
    "toxic" :> <<"t","o","x","i","c">> @@
    "sludge-bomb" :> <<"s","l","u","d","g","e","-","b","o","m","b">> @@
    "poison-jab" :> <<"p","o","i","s","o","n","-","j","a","b">> @@
    "will-o-wisp" :> <<"w","i","l","l","-","o","-","w","i","s","p">> @@
    "flamethrower" :> <<"f","l","a","m","e","t","h","r","o","w","e","r">> @@
    "fire-blast" :> <<"f","i","r","e","-","b","l","a","s","t">> @@
    "lava-plume" :> <<"l","a","v","a","-","p","l","u","m","e">> @@
    "thunder-wave" :> <<"t","h","u","n","d","e","r","-","w","a","v","e">> @@
    "thunderbolt" :> <<"t","h","u","n","d","e","r","b","o","l","t">> @@
    "thunder" :> <<"t","h","u","n","d","e","r">> @@
    "body-slam" :> <<"b","o","d","y","-","s","l","a","m">> @@
    "sleep-powder" :> <<"s","l","e","e","p","-","p","o","w","d","e","r">> @@
    "spore" :> <<"s","p","o","r","e">> @@
    "hypnosis" :> <<"h","y","p","n","o","s","i","s">> @@
    "lovely-kiss" :> <<"l","o","v","e","l","y","-","k","i","s","s">> @@
    "ice-beam" :> <<"i","c","e","-","b","e","a","m">> @@
    "blizzard" :> <<"b","l","i","z","z","a","r","d">> @@
    "freeze-dry" :> <<"f","r","e","e","z","e","-","d","r","y">> @@
    "confuse-ray" :> <<"c","o","n","f","u","s","e","-","r","a","y">> @@
    "supersonic" :> <<"s","u","p","e","r","s","o","n","i","c">> @@
    "swagger" :> <<"s","w","a","g","g","e","r">> @@
    "swords-dance" :> <<"s","w","o","r","d","s","-","d","a","n","c","e">> @@
    "howl" :> <<"h","o","w","l">> @@
    "meditate" :> <<"m","e","d","i","t","a","t","e">> @@
    "harden" :> <<"h","a","r","d","e","n">> @@
    "withdraw" :> <<"w","i","t","h","d","r","a","w">> @@
    "iron-defense" :> <<"i","r","o","n","-","d","e","f","e","n","s","e">> @@
    "nasty-plot" :> <<"n","a","s","t","y","-","p","l","o","t">> @@
    "calm-mind" :> <<"c","a","l","m","-","m","i","n","d">> @@
    "amnesia" :> <<"a","m","n","e","s","i","a">> @@
    "agility" :> <<"a","g","i","l","i","t","y">> @@
    "quick-attack" :> <<"q","u","i","c","k","-","a","t","t","a","c","k">> @@
    "flame-charge" :> <<"f","l","a","m","e","-","c","h","a","r","g","e">> @@
    "hone-claws" :> <<"h","o","n","e","-","c","l","a","w","s">> @@
    "double-team" :> <<"d","o","u","b","l","e","-","t","e","a","m">> @@
    "minimize" :> <<"m","i","n","i","m","i","z","e">> @@
    "sunny-day" :> <<"s","u","n","n","y","-","d","a","y">> @@
    "rain-dance" :> <<"r","a","i","n","-","d","a","n","c","e">> @@
    "sandstorm" :> <<"s","a","n","d","s","t","o","r","m">> @@
    "hail" :> <<"h","a","i","l">> @@
    "grassy-terrain" :> <<"g","r","a","s","s","y","-","t","e","r","r","a","i","n">> @@
    "misty-terrain" :> <<"m","i","s","t","y","-","t","e","r","r","a","i","n">> @@
    "electric-terrain" :> <<"e","l","e","c","t","r","i","c","-","t","e","r","r","a","i","n">> @@
    "psychic-terrain" :> <<"p","s","y","c","h","i","c","-","t","e","r","r","a","i","n">> @@
    "fake-out" :> <<"f","a","k","e","-","o","u","t">> @@
    "air-slash" :> <<"a","i","r","-","s","l","a","s","h">> @@
    "iron-head" :> <<"i","r","o","n","-","h","e","a","d">> @@
    "rock-slide" :> <<"r","o","c","k","-","s","l","i","d","e">> @@
    "focus-energy" :> <<"f","o","c","u","s","-","e","n","e","r","g","y">> @@
    "laser-focus" :> <<"l","a","s","e","r","-","f","o","c","u","s">> @@
    "rest" :> <<"r","e","s","t">> @@
    "double-slap" :> <<"d","o","u","b","l","e","-","s","l","a","p">> @@
    "fury-attack" :> <<"f","u","r","y","-","a","t","t","a","c","k">> @@
    "pin-missile" :> <<"p","i","n","-","m","i","s","s","i","l","e">> @@
    "rock-blast" :> <<"r","o","c","k","-","b","l","a","s","t">> @@
    "frost-breath" :> <<"f","r","o","s","t","-","b","r","e","a","t","h">> @@
    "storm-throw" :> <<"s","t","o","r","m","-","t","h","r","o","w">> @@
    "tackle" :> <<"t","a","c","k","l","e">> @@
    "splash" :> <<"s","p","l","a","s","h">> @@
    "earthquake" :> <<"e","a","r","t","h","q","u","a","k","e">> @@
    "growl" :> <<"g","r","o","w","l">> @@
    "forests-curse" :> <<"f","o","r","e","s","t","s","-","c","u","r","s","e">> @@
    "toxic-spikes" :> <<"t","o","x","i","c","-","s","p","i","k","e","s">> @@
    "thunder-punch" :> <<"t","h","u","n","d","e","r","-","p","u","n","c","h">> @@
    "unknown-move" :> <<"u","n","k","n","o","w","n","-","m","o","v","e">>

\* key in name (str.__contains__), on character sequences
IsSubstring(k, n) ==
    \E i \in 0..(Len(n) - Len(k)) : SubSeq(n, i + 1, i + Len(k)) = k

\* the substring test for every pair of names, computed once
Contains == [name \in DOMAIN Chars |-> [key \in DOMAIN Chars |-> IsSubstring(Chars[key], Chars[name])]]

In(key, name) == Contains[name][key]

\* any(move in name for move in moves)
AnyIn(moves, name) == \E j \in 1..Len(moves) : In(moves[j], name)

----------------------------------------------------------------------------
(* class Pokemon *)

StatNames == <<"hp", "attack", "defense", "special-attack", "special-defense", "speed">>

ModifierNames == {"attack", "defense", "special-attack", "special-defense", "speed",
                  "accuracy", "evasion"}

\* a stat calculation that adds the EV itself
CalculateStatWholeEV(stat_name, base_stat, iv, ev, level) ==
    IF stat_name = "hp"
    THEN (((2 * base_stat + iv + ev) * level) \div 100) + level + 10
    ELSE (((2 * base_stat + iv + ev) * level) + 500) \div 100

\* a stat calculation whose level factor wraps at 100
CalculateStatLevelWraps(stat_name, base_stat, iv, ev, level) ==
    IF stat_name = "hp"
    THEN (((2 * base_stat + iv + (ev \div 4)) * (level % 100)) \div 100) + level + 10
    ELSE (((2 * base_stat + iv + (ev \div 4)) * (level % 100)) + 500) \div 100

\* Pokemon._calculate_stats: one stat of the loop
CalculateStat(stat_name, base_stat, iv, ev, level) ==
    IF stat_name = "hp"
    THEN (((2 * base_stat + iv + (ev \div 4)) * level) \div 100) + level + 10
    ELSE (((2 * base_stat + iv + (ev \div 4)) * level) + 500) \div 100

\* Pokemon._calculate_stats
CalculateStats(pokemon_data, ivs, evs, level) ==
    [s \in {StatNames[i] : i \in 1..Len(StatNames)} |->
        CalculateStat(s, pokemon_data.stats[s], Get(ivs, s, 0), Get(evs, s, 0), level)]

\* the move record Pokemon._load_move_data stores when the request fails
DefaultMoveData ==
    [power |-> Some(60), accuracy |-> Some(90), type |-> "normal",
     damage_class |-> "physical", priority |-> 0, effect_chance |-> None,
     crit_rate |-> 0, effect_self |-> FALSE]

\* Pokemon._load_move_data: api[m] is the record the request for m returned,
\* None when both requests failed
LoadMoveData(moves, api) ==
    [m \in {moves[i] : i \in 1..Len(moves)} |->
        IF IsNone(api[m]) THEN DefaultMoveData ELSE Val(api[m])]

\* Pokemon._load_item_data: the item_effects table
ItemEffects ==
    "leftovers"     :> ("type" :> "heal" @@ "value" :> <<1, 16>>) @@
    "black-sludge"  :> ("type" :> "conditional_heal" @@ "value" :> <<1, 16>>) @@
    "choice-band"   :> ("type" :> "stat_boost" @@ "stat" :> "attack" @@ "multiplier" :> <<3, 2>>) @@
    "choice-specs"  :> ("type" :> "stat_boost" @@ "stat" :> "special-attack" @@ "multiplier" :> <<3, 2>>) @@
    "choice-scarf"  :> ("type" :> "stat_boost" @@ "stat" :> "speed" @@ "multiplier" :> <<3, 2>>) @@
    "life-orb"      :> ("type" :> "damage_boost" @@ "multiplier" :> <<13, 10>> @@ "recoil" :> <<1, 10>>) @@
    "focus-sash"    :> ("type" :> "survival" @@ "effect" :> "endure") @@
    "assault-vest"  :> ("type" :> "stat_boost" @@ "stat" :> "special-defense" @@ "multiplier" :> <<3, 2>>) @@
    "eviolite"      :> ("type" :> "evolution_boost" @@ "defense" :> <<3, 2>> @@ "special-defense" :> <<3, 2>>) @@
    "flame-orb"     :> ("type" :> "self_status" @@ "status" :> "burn") @@
    "toxic-orb"     :> ("type" :> "self_status" @@ "status" :> "poison") @@
    "quick-claw"    :> ("type" :> "priority_chance" @@ "chance" :> <<1, 5>>) @@
    "muscle-band"   :> ("type" :> "type_boost" @@ "damage_class" :> "physical" @@ "multiplier" :> <<11, 10>>) @@
    "wise-glasses"  :> ("type" :> "type_boost" @@ "damage_class" :> "special" @@ "multiplier" :> <<11, 10>>) @@
    "expert-belt"   :> ("type" :> "effectiveness_boost" @@ "multiplier" :> <<6, 5>>) @@
    "focus-band"    :> ("type" :> "survival_chance" @@ "chance" :> <<1, 10>>)

\* Pokemon._load_item_data; held_item "none" is Python's None
LoadItemData(held_item) ==
    IF held_item = "none" THEN EmptyDict ELSE Get(ItemEffects, held_item, EmptyDict)

\* self.item_data, set once by Pokemon.__init__
item_data(pk) == LoadItemData(pk.held_item)

ItemType(pk) == Get(item_data(pk), "type", "")

\* Pokemon.__init__
NewPokemon(pokemon_data, ivs, evs, moves, level, held_item, api) ==
    LET stats == CalculateStats(pokemon_data, ivs, evs, level)
    IN  [types          |-> pokemon_data.types,
         level          |-> level,
         held_item      |-> held_item,
         moves          |-> moves,
         stats          |-> stats,
         max_hp         |-> stats["hp"],
         current_hp     |-> stats["hp"],
         status         |-> "none",
         status_turns   |-> 0,
         flinch         |-> FALSE,
         stat_modifiers |-> [s \in ModifierNames |-> 0],
         crit_stage     |-> 0,
         move_data      |-> LoadMoveData(moves, api)]

\* stat_name.replace('-', '_')
ReplaceHyphen(stat_name) ==
    IF stat_name = "special-defense" THEN "special_defense" ELSE stat_name

\* int(x * m) for the rational m
Scale(x, m) == (x * m[1]) \div m[2]

\* Pokemon.get_effective_stat: int(base_stat * multiplier)
StageMultiply(base_stat, modifier) ==
    IF modifier > 0 THEN (base_stat * (2 + modifier)) \div 2
    ELSE IF modifier < 0 THEN (base_stat * 2) \div (2 + Abs(modifier))
    ELSE base_stat

\* Pokemon.get_effective_stat: the held item effects
ItemMultiply(effective_stat, item, stat_name) ==
    IF DOMAIN item = {} THEN effective_stat
    ELSE IF item["type"] = "stat_boost" /\ item["stat"] = stat_name
    THEN Scale(effective_stat, Get(item, "multiplier", <<1, 1>>))
    ELSE IF item["type"] = "evolution_boost" /\ stat_name \in {"defense", "special-defense"}
    THEN Scale(effective_stat, Get(item, ReplaceHyphen(stat_name), <<1, 1>>))
    ELSE effective_stat

\* Pokemon.get_effective_stat
GetEffectiveStat(pk, stat_name) ==
    ItemMultiply(StageMultiply(Get(pk.stats, stat_name, 0), Get(pk.stat_modifiers, stat_name, 0)),
                 item_data(pk), stat_name)

\* Pokemon.get_critical_hit_chance: crit_ratios.get(total_crit_stage, 1/24)
CritRatio(total_crit_stage) ==
    CASE total_crit_stage = 1 -> <<1, 8>>
      [] total_crit_stage = 2 -> <<1, 2>>
      [] total_crit_stage = 3 -> <<1, 1>>
      [] OTHER -> <<1, 24>>

\* Pokemon.get_critical_hit_chance, as a rational
GetCriticalHitChance(pk, move_name) ==
    IF move_name \in {"frost-breath", "storm-throw"} THEN <<1, 1>>
    ELSE CritRatio(Min(3, pk.crit_stage + (IF move_name \in DOMAIN pk.move_data
                                            THEN pk.move_data[move_name].crit_rate ELSE 0)))

\* an is_fainted that needs current_hp below 0
IsFaintedBelowZero(pk) == pk.current_hp < 0

\* Pokemon.is_fainted
IsFainted(pk) == pk.current_hp <= 0

\* Pokemon.apply_status_damage: the damage of badly-poisoned
BadlyPoisonedDamage(pk) == Max(1, (pk.max_hp * pk.status_turns) \div 16)

\* Pokemon.apply_status_damage: the status condition damage
StatusConditionDamage(pk) ==
    IF pk.status = "poison"
    THEN [pk EXCEPT !.current_hp = Max(0, pk.current_hp - Max(1, pk.max_hp \div 8))]
    ELSE IF pk.status = "burn"
    THEN [pk EXCEPT !.current_hp = Max(0, pk.current_hp - Max(1, pk.max_hp \div 16))]
    ELSE IF pk.status = "badly-poisoned"
    THEN [pk EXCEPT !.current_hp = Max(0, pk.current_hp - BadlyPoisonedDamage(pk))]
    ELSE pk

\* Pokemon.apply_status_damage: the heal of Leftovers and Black Sludge
ItemHeal(pk, heal_amount) ==
    IF pk.current_hp < pk.max_hp /\ pk.current_hp > 0
    THEN [pk EXCEPT !.current_hp = Min(pk.max_hp, pk.current_hp + heal_amount)]
    ELSE pk

\* Pokemon.apply_status_damage: the held item effects at end of turn
ItemEndOfTurn(pk, item, heal_amount) ==
    IF DOMAIN item = {} THEN pk
    ELSE IF item["type"] = "heal" THEN ItemHeal(pk, heal_amount)
    ELSE IF item["type"] = "conditional_heal"
    THEN IF \E i \in 1..Len(pk.types) : pk.types[i] = "poison"
         THEN ItemHeal(pk, heal_amount)
         ELSE [pk EXCEPT !.current_hp = Max(0, pk.current_hp - heal_amount)]
    ELSE pk

HeldItemEndOfTurn(pk) ==
    ItemEndOfTurn(pk, item_data(pk), Scale(pk.max_hp, Get(item_data(pk), "value", <<0, 1>>)))

\* a counter of sleep, freeze and confusion that is left as it is
StatusTurnsKept(pk) == pk

\* a counter that also runs, and ends the status, for paralysis
DecrementAlsoParalysis(pk) ==
    IF pk.status \in {"sleep", "freeze", "confusion", "paralysis"}
    THEN IF pk.status_turns - 1 <= 0
         THEN [pk EXCEPT !.status = "none", !.status_turns = 0]
         ELSE [pk EXCEPT !.status_turns = pk.status_turns - 1]
    ELSE pk

\* a counter that only runs for sleep
DecrementOnlySleep(pk) ==
    IF pk.status = "sleep"
    THEN IF pk.status_turns - 1 <= 0
         THEN [pk EXCEPT !.status = "none", !.status_turns = 0]
         ELSE [pk EXCEPT !.status_turns = pk.status_turns - 1]
    ELSE pk

\* Pokemon.apply_status_damage: the counter of sleep, freeze and confusion
DecrementStatusTurns(pk) ==
    IF pk.status \in {"sleep", "freeze", "confusion"}
    THEN IF pk.status_turns - 1 <= 0
         THEN [pk EXCEPT !.status = "none", !.status_turns = 0]
         ELSE [pk EXCEPT !.status_turns = pk.status_turns - 1]
    ELSE pk

\* a badly-poisoned counter that is left as it is
BadlyPoisonedStuck(pk) == pk

\* Pokemon.apply_status_damage: the counter of badly-poisoned
IncrementBadlyPoisoned(pk) ==
    IF pk.status = "badly-poisoned"
    THEN [pk EXCEPT !.status_turns = pk.status_turns + 1]
    ELSE pk

StatusTurnCounters(pk) == IncrementBadlyPoisoned(DecrementStatusTurns(pk))

\* Pokemon.apply_status_damage
ApplyStatusDamage(pk) ==
    IF pk.status = "none" /\ DOMAIN item_data(pk) = {}
    THEN pk
    ELSE [StatusTurnCounters(HeldItemEndOfTurn(StatusConditionDamage(pk)))
            EXCEPT !.flinch = FALSE]

----------------------------------------------------------------------------
(* class BattleEngine *)

\* BattleEngine.__init__
NewEngine == [terrain |-> "none", terrain_turns |-> 0, weather |-> "none", weather_turns |-> 0]

\* BattleEngine.set_terrain
SetTerrain(eng, terrain_type, turns) ==
    [eng EXCEPT !.terrain = terrain_type, !.terrain_turns = turns]

\* BattleEngine.set_weather
SetWeather(eng, weather_type, turns) ==
    [eng EXCEPT !.weather = weather_type, !.weather_turns = turns]

\* BattleEngine._load_type_effectiveness, each multiplier in halves
\* (4 is 2.0, 1 is 0.5, 0 is 0.0)
TypeEffectivenessChart ==
    "fire" :> ("grass" :> 4 @@ "ice" :> 4 @@ "bug" :> 4 @@ "steel" :> 4 @@ "water" :> 1 @@ "fire" :> 1 @@ "rock" :> 1 @@ "dragon" :> 1) @@
    "water" :> ("fire" :> 4 @@ "ground" :> 4 @@ "rock" :> 4 @@ "water" :> 1 @@ "grass" :> 1 @@ "dragon" :> 1) @@
    "grass" :> ("water" :> 4 @@ "ground" :> 4 @@ "rock" :> 4 @@ "fire" :> 1 @@ "grass" :> 1 @@ "poison" :> 1 @@ "flying" :> 1 @@ "bug" :> 1 @@ "dragon" :> 1 @@ "steel" :> 1) @@
    "electric" :> ("water" :> 4 @@ "flying" :> 4 @@ "electric" :> 1 @@ "grass" :> 1 @@ "dragon" :> 1 @@ "ground" :> 0) @@
    "psychic" :> ("fighting" :> 4 @@ "poison" :> 4 @@ "psychic" :> 1 @@ "steel" :> 1 @@ "dark" :> 0) @@
    "ice" :> ("grass" :> 4 @@ "ground" :> 4 @@ "flying" :> 4 @@ "dragon" :> 4 @@ "fire" :> 1 @@ "water" :> 1 @@ "ice" :> 1 @@ "steel" :> 1) @@
    "dragon" :> ("dragon" :> 4 @@ "steel" :> 1 @@ "fairy" :> 0) @@
    "dark" :> ("psychic" :> 4 @@ "ghost" :> 4 @@ "fighting" :> 1 @@ "dark" :> 1 @@ "fairy" :> 1) @@
    "fairy" :> ("fighting" :> 4 @@ "dragon" :> 4 @@ "dark" :> 4 @@ "fire" :> 1 @@ "poison" :> 1 @@ "steel" :> 1) @@
    "fighting" :> ("normal" :> 4 @@ "ice" :> 4 @@ "rock" :> 4 @@ "dark" :> 4 @@ "steel" :> 4 @@ "poison" :> 1 @@ "flying" :> 1 @@ "psychic" :> 1 @@ "bug" :> 1 @@ "fairy" :> 1 @@ "ghost" :> 0) @@
    "poison" :> ("grass" :> 4 @@ "fairy" :> 4 @@ "poison" :> 1 @@ "ground" :> 1 @@ "rock" :> 1 @@ "ghost" :> 1 @@ "steel" :> 0) @@
    "ground" :> ("fire" :> 4 @@ "electric" :> 4 @@ "poison" :> 4 @@ "rock" :> 4 @@ "steel" :> 4 @@ "grass" :> 1 @@ "bug" :> 1 @@ "flying" :> 0) @@
    "flying" :> ("electric" :> 1 @@ "ice" :> 1 @@ "rock" :> 1 @@ "fighting" :> 4 @@ "bug" :> 4 @@ "grass" :> 4 @@ "steel" :> 1) @@
    "bug" :> ("grass" :> 4 @@ "psychic" :> 4 @@ "dark" :> 4 @@ "fire" :> 1 @@ "fighting" :> 1 @@ "poison" :> 1 @@ "flying" :> 1 @@ "ghost" :> 1 @@ "steel" :> 1 @@ "fairy" :> 1) @@
    "rock" :> ("fire" :> 4 @@ "ice" :> 4 @@ "flying" :> 4 @@ "bug" :> 4 @@ "fighting" :> 1 @@ "ground" :> 1 @@ "steel" :> 1) @@
    "ghost" :> ("psychic" :> 4 @@ "ghost" :> 4 @@ "dark" :> 1 @@ "normal" :> 0) @@
    "steel" :> ("ice" :> 4 @@ "rock" :> 4 @@ "fairy" :> 4 @@ "fire" :> 1 @@ "water" :> 1 @@ "electric" :> 1 @@ "steel" :> 1) @@
    "normal" :> ("rock" :> 1 @@ "ghost" :> 0 @@ "steel" :> 1)

RECURSIVE GCD(_, _)
GCD(a, b) == IF b = 0 THEN a ELSE GCD(b, a % b)

\* the rational x divided through by g
ReduceBy(x, g) == <<x[1] \div g, x[2] \div g>>

\* the rational x in lowest terms
Reduce(x) == ReduceBy(x, GCD(x[1], x[2]))

\* product of two rationals in lowest terms, g1 and g2 the common factors
\* across the two
CrossMul(a, b, g1, g2) ==
    <<(a[1] \div g1) * (b[1] \div g2), (a[2] \div g2) * (b[2] \div g1)>>

ReducedMul(a, b) == CrossMul(a, b, GCD(a[1], b[2]), GCD(b[1], a[2]))

\* product of rationals: the value of the float product (the integer part
\* of a damage is the same for both on the configurations of this module)
RMul(a, b) == ReducedMul(Reduce(a), Reduce(b))

\* BattleEngine.calculate_type_effectiveness, as a rational
RECURSIVE TypeEffectivenessFrom(_, _, _)
TypeEffectivenessFrom(move_type, defender_types, i) ==
    IF i > Len(defender_types) THEN <<1, 1>>
    ELSE LET type_matchup == Get(TypeEffectivenessChart, move_type, EmptyDict)
             multiplier   == <<Get(type_matchup, defender_types[i], 2), 2>>
         IN  RMul(multiplier, TypeEffectivenessFrom(move_type, defender_types, i + 1))

CalculateTypeEffectiveness(move_type, defender_types) ==
    TypeEffectivenessFrom(move_type, defender_types, 1)

\* BattleEngine._get_weather_multiplier
GetWeatherMultiplier(eng, move_type) ==
    IF eng.weather = "none" THEN <<1, 1>>
    ELSE IF eng.weather = "sun"
    THEN (IF move_type = "fire" THEN <<3, 2>>
          ELSE IF move_type = "water" THEN <<1, 2>> ELSE <<1, 1>>)
    ELSE IF eng.weather = "rain"
    THEN (IF move_type = "water" THEN <<3, 2>>
          ELSE IF move_type = "fire" THEN <<1, 2>> ELSE <<1, 1>>)
    ELSE <<1, 1>>

\* BattleEngine._get_terrain_multiplier
GetTerrainMultiplier(eng, move_type) ==
    IF eng.terrain = "none" THEN <<1, 1>>
    ELSE IF eng.terrain = "grassy" /\ move_type = "grass" THEN <<13, 10>>
    ELSE IF eng.terrain = "electric" /\ move_type = "electric" THEN <<13, 10>>
    ELSE IF eng.terrain = "psychic" /\ move_type = "psychic" THEN <<13, 10>>
    ELSE IF eng.terrain = "misty" /\ move_type = "dragon" THEN <<1, 2>>
    ELSE <<1, 1>>

\* BattleEngine._get_item_damage_multiplier, for the attacker's item_data
ItemDamageMultiplier(item, damage_class, type_effectiveness) ==
    IF DOMAIN item = {} THEN <<1, 1>>
    ELSE IF item["type"] = "damage_boost" THEN Get(item, "multiplier", <<1, 1>>)
    ELSE IF item["type"] = "type_boost"
    THEN (IF Get(item, "damage_class", "") = damage_class
          THEN Get(item, "multiplier", <<1, 1>>) ELSE <<1, 1>>)
    ELSE IF item["type"] = "effectiveness_boost" /\ type_effectiveness[1] > type_effectiveness[2]
    THEN Get(item, "multiplier", <<1, 1>>)
    ELSE <<1, 1>>

GetItemDamageMultiplier(attacker, damage_class, type_effectiveness) ==
    ItemDamageMultiplier(item_data(attacker), damage_class, type_effectiveness)

\* BattleEngine.calculate_damage: the stats the damage class selects
AttackName(damage_class) == IF damage_class = "physical" THEN "attack" ELSE "special-attack"

DefenseName(damage_class) == IF damage_class = "physical" THEN "defense" ELSE "special-defense"

\* a critical hit that keeps the attacker's attack drops
CriticalAttackIgnored(effective, calculated, is_critical) == effective

\* critical hits ignore attack drops and defense boosts
CriticalAttack(effective, calculated, is_critical) ==
    IF is_critical THEN Max(effective, calculated) ELSE effective

CriticalDefense(effective, calculated, is_critical) ==
    IF is_critical THEN Min(effective, calculated) ELSE effective

\* burn halves the attack of physical moves
BurnHalve(attacker, damage_class, attack_stat) ==
    IF attacker.status = "burn" /\ damage_class = "physical" THEN attack_stat \div 2
    ELSE attack_stat

AttackStat(attacker, damage_class, is_critical) ==
    BurnHalve(attacker, damage_class,
              CriticalAttack(GetEffectiveStat(attacker, AttackName(damage_class)),
                             attacker.stats[AttackName(damage_class)], is_critical))

DefenseStat(defender, damage_class, is_critical) ==
    CriticalDefense(GetEffectiveStat(defender, DefenseName(damage_class)),
                    defender.stats[DefenseName(damage_class)], is_critical)

\* a base damage without the constant 2
BaseDamageNoConstant(level, power, attack_stat, defense_stat) ==
    <<(2 * level + 10) * power * attack_stat, 250 * defense_stat>>

\* (2 * level / 5 + 2) * power * attack_stat / defense_stat / 50 + 2, as a rational
BaseDamage(level, power, attack_stat, defense_stat) ==
    <<(2 * level + 10) * power * attack_stat + 2 * 250 * defense_stat, 250 * defense_stat>>

Stab(attacker, move_type) ==
    IF \E i \in 1..Len(attacker.types) : attacker.types[i] = move_type
    THEN <<3, 2>> ELSE <<1, 1>>

CritMultiplier(is_critical) == IF is_critical THEN <<3, 2>> ELSE <<1, 1>>

\* stab * type_effectiveness * crit_multiplier * weather_multiplier *
\* terrain_multiplier * item_multiplier * random_factor
Multipliers(eng, attacker, move_data, type_effectiveness, is_critical, random_factor) ==
    RMul(Stab(attacker, move_data.type), RMul(type_effectiveness,
    RMul(CritMultiplier(is_critical), RMul(GetWeatherMultiplier(eng, move_data.type),
    RMul(GetTerrainMultiplier(eng, move_data.type),
    RMul(GetItemDamageMultiplier(attacker, move_data.damage_class, type_effectiveness),
         <<random_factor, 100>>))))))

\* int(x) for the non-negative rational x
Floor(x) == x[1] \div x[2]

\* BattleEngine.calculate_damage: final_damage
FinalDamage(eng, attacker, defender, move_data, type_effectiveness, is_critical, random_factor) ==
    Floor(RMul(BaseDamage(attacker.level, Val(move_data.power),
                          AttackStat(attacker, move_data.damage_class, is_critical),
                          DefenseStat(defender, move_data.damage_class, is_critical)),
               Multipliers(eng, attacker, move_data, type_effectiveness, is_critical,
                           random_factor)))

\* BattleEngine.calculate_damage: the Life Orb recoil
LifeOrbRecoil(attacker, final_damage) ==
    IF ItemType(attacker) = "damage_boost" /\ final_damage > 0
    THEN [attacker EXCEPT !.current_hp =
             Max(0, attacker.current_hp
                    - Scale(attacker.max_hp, Get(item_data(attacker), "recoil", <<0, 1>>)))]
    ELSE attacker

\* BattleEngine.calculate_damage: the effectiveness message
EffectivenessMsg(type_effectiveness) ==
    IF type_effectiveness[1] > type_effectiveness[2] THEN "It's super effective!"
    ELSE IF type_effectiveness[1] < type_effectiveness[2] /\ type_effectiveness[1] > 0
    THEN "It's not very effective..."
    ELSE IF type_effectiveness[1] = 0 THEN "It doesn't affect the opponent!"
    ELSE ""

\* a calculate_damage that returns final_damage as it is
UnclampedDamage(final_damage) == final_damage

\* the damage calculate_damage returns for final_damage
ClampDamage(final_damage) == Max(1, final_damage)

\* what calculate_damage returns (damage, effectiveness_msg, is_critical), with
\* the attacker as the call leaves it and final_damage, the value before the clamp
DamageResult(attacker, final_damage, type_effectiveness, is_critical) ==
    [damage |-> ClampDamage(final_damage),
     final_damage |-> final_damage,
     effectiveness_msg |-> EffectivenessMsg(type_effectiveness),
     is_critical |-> is_critical,
     attacker |-> LifeOrbRecoil(attacker, final_damage)]

\* a calculate_damage whose minimum of 1 also applies to its early returns
NoDamageClamped(attacker, msg) ==
    [damage |-> 1, final_damage |-> 0, effectiveness_msg |-> msg, is_critical |-> FALSE,
     attacker |-> attacker]

\* calculate_damage: return 0, msg, False
NoDamage(attacker, msg) ==
    [damage |-> 0, final_damage |-> 0, effectiveness_msg |-> msg, is_critical |-> FALSE,
     attacker |-> attacker]

\* BattleEngine.calculate_damage: is_critical
IsCritical(attacker, move_name, crit_draw) ==
    Chance(crit_draw, GetCriticalHitChance(attacker, move_name))

\* BattleEngine.calculate_damage for a move with power
DamagingMove(eng, attacker, defender, move_data, type_effectiveness, is_critical, random_factor) ==
    DamageResult(attacker,
                 FinalDamage(eng, attacker, defender, move_data, type_effectiveness,
                             is_critical, random_factor),
                 type_effectiveness, is_critical)

\* BattleEngine.calculate_damage
CalculateDamage(eng, attacker, defender, move_name, crit_draw, random_factor) ==
    IF move_name \notin DOMAIN attacker.move_data
    THEN NoDamage(attacker, "Move data not found!")
    ELSE IF IsNone(attacker.move_data[move_name].power)
    THEN NoDamage(attacker, "Status move used!")
    ELSE IF attacker.move_data[move_name].damage_class \notin {"physical", "special"}
    THEN NoDamage(attacker, "Status move used!")
    ELSE DamagingMove(eng, attacker, defender, attacker.move_data[move_name],
                      CalculateTypeEffectiveness(attacker.move_data[move_name].type,
                                                 defender.types),
                      IsCritical(attacker, move_name, crit_draw), random_factor)

\* BattleEngine.use_move: final_accuracy, as a rational
AccuracyOf(accuracy, accuracy_modifier) ==
    IF accuracy_modifier > 0 THEN <<accuracy * (3 + accuracy_modifier), 3>>
    ELSE IF accuracy_modifier < 0 THEN <<accuracy * 3, 3 + Abs(accuracy_modifier)>>
    ELSE <<accuracy, 1>>

FinalAccuracy(attacker, defender, move_data) ==
    AccuracyOf(IF IsNone(move_data.accuracy) THEN 100 ELSE Val(move_data.accuracy),
               Get(attacker.stat_modifiers, "accuracy", 0)
               - Get(defender.stat_modifiers, "evasion", 0))

\* random.randint(1, 100) > final_accuracy
Misses(acc_draw, final_accuracy) == acc_draw * final_accuracy[2] > final_accuracy[1]

\* a use_move without the survival check
SurvivalCheckSkipped(defender, damage, band_draw) == damage

\* BattleEngine.use_move: the Focus Sash / Focus Band survival check
SurvivalCheck(defender, damage, band_draw) ==
    IF damage >= defender.current_hp /\ defender.current_hp = defender.max_hp
    THEN IF ItemType(defender) = "survival" THEN defender.current_hp - 1
         ELSE IF ItemType(defender) = "survival_chance"
                 /\ Chance(band_draw, Get(item_data(defender), "chance", <<0, 1>>))
         THEN defender.current_hp - 1
         ELSE damage
    ELSE damage

\* a use_move that subtracts the damage without the floor at 0
TakeDamageUnfloored(defender, damage) ==
    IF damage > 0
    THEN [defender EXCEPT !.current_hp = defender.current_hp - damage]
    ELSE defender

\* BattleEngine.use_move: the damage applied to the defender
TakeDamage(defender, damage) ==
    IF damage > 0
    THEN [defender EXCEPT !.current_hp = Max(0, defender.current_hp - damage)]
    ELSE defender

\* use_move returns before it reaches _apply_move_effects; msg is the last
\* message it appended, thawed says whether "thawed out!" is among its messages
Return(pks, msg) ==
    [pokemon |-> pks, effects |-> FALSE, msg |-> msg, damage |-> 0, thawed |-> FALSE]

\* BattleEngine.use_move: r is what calculate_damage returned; damage is the
\* damage r holds, before the survival check
Hit(pks, a, d, r, band_draw) ==
    [pokemon |-> [pks EXCEPT ![a] = r.attacker,
                             ![d] = TakeDamage(pks[d], SurvivalCheck(pks[d], r.damage, band_draw))],
     effects |-> TRUE,
     msg     |-> "used",
     damage  |-> r.damage,
     thawed  |-> FALSE]

\* a use_move without the Psychic Terrain check
ExecuteMoveUnblocked(pks, eng, a, d, move_name, move_data, rnd) ==
    IF Misses(rnd.acc, FinalAccuracy(pks[a], pks[d], move_data))
    THEN Return(pks, "attack missed!")
    ELSE Hit(pks, a, d, CalculateDamage(eng, pks[a], pks[d], move_name, rnd.crit, rnd.factor),
             rnd.band)

\* a use_move whose missed move still costs the defender 1 HP
ExecuteMoveGrazes(pks, eng, a, d, move_name, move_data, rnd) ==
    IF eng.terrain = "psychic" /\ move_data.priority > 0
       /\ ~(\E i \in 1..Len(pks[d].types) : pks[d].types[i] = "dark")
    THEN Return(pks, "The move was blocked by Psychic Terrain!")
    ELSE IF Misses(rnd.acc, FinalAccuracy(pks[a], pks[d], move_data))
    THEN Return([pks EXCEPT ![d] = TakeDamage(@, 1)], "attack missed!")
    ELSE Hit(pks, a, d, CalculateDamage(eng, pks[a], pks[d], move_name, rnd.crit, rnd.factor),
             rnd.band)

\* BattleEngine.use_move from the Psychic Terrain check on
ExecuteMove(pks, eng, a, d, move_name, move_data, rnd) ==
    IF eng.terrain = "psychic" /\ move_data.priority > 0
       /\ ~(\E i \in 1..Len(pks[d].types) : pks[d].types[i] = "dark")
    THEN Return(pks, "The move was blocked by Psychic Terrain!")
    ELSE IF Misses(rnd.acc, FinalAccuracy(pks[a], pks[d], move_data))
    THEN Return(pks, "attack missed!")
    ELSE Hit(pks, a, d, CalculateDamage(eng, pks[a], pks[d], move_name, rnd.crit, rnd.factor),
             rnd.band)

\* a use_move that treats a move without a record as a hit for 1 damage
TryMoveDefaulted(pks, eng, a, d, move_name, rnd) ==
    IF pks[a].status = "paralysis" /\ RandomBelow(rnd.para, 1, 4)
    THEN Return(pks, "is paralyzed and can't move!")
    ELSE IF pks[a].status = "confusion" /\ RandomBelow(rnd.conf, 33, 100)
    THEN Return([pks EXCEPT ![a].current_hp = Max(0, @ - (pks[a].max_hp \div 10))],
                "hurt itself in confusion")
    ELSE IF move_name \notin DOMAIN pks[a].move_data
    THEN Return([pks EXCEPT ![d] = TakeDamage(@, 1)], "used")
    ELSE ExecuteMove(pks, eng, a, d, move_name, pks[a].move_data[move_name], rnd)

\* BattleEngine.use_move from the paralysis check on
TryMove(pks, eng, a, d, move_name, rnd) ==
    IF pks[a].status = "paralysis" /\ RandomBelow(rnd.para, 1, 4)
    THEN Return(pks, "is paralyzed and can't move!")
    ELSE IF pks[a].status = "confusion" /\ RandomBelow(rnd.conf, 33, 100)
    THEN Return([pks EXCEPT ![a].current_hp = Max(0, @ - (pks[a].max_hp \div 10))],
                "hurt itself in confusion")
    ELSE IF move_name \notin DOMAIN pks[a].move_data THEN Return(pks, "doesn't know")
    ELSE ExecuteMove(pks, eng, a, d, move_name, pks[a].move_data[move_name], rnd)

\* a use_move that returns once the attacker has thawed
UseMoveThawOnly(pks, eng, a, d, move_name, rnd) ==
    IF IsFainted(pks[a]) THEN Return(pks, "has fainted and cannot move!")
    ELSE IF pks[a].flinch
    THEN Return([pks EXCEPT ![a].flinch = FALSE], "flinched and couldn't move!")
    ELSE IF pks[a].status = "sleep" THEN Return(pks, "is fast asleep!")
    ELSE IF pks[a].status = "freeze" /\ ~RandomBelow(rnd.thaw, 1, 5)
    THEN Return(pks, "is frozen solid!")
    ELSE IF pks[a].status = "freeze"
    THEN [Return([pks EXCEPT ![a].status = "none", ![a].status_turns = 0], "thawed out!")
             EXCEPT !.thawed = TRUE]
    ELSE TryMove(pks, eng, a, d, move_name, rnd)

\* a use_move without the sleep check
UseMoveAwake(pks, eng, a, d, move_name, rnd) ==
    IF IsFainted(pks[a]) THEN Return(pks, "has fainted and cannot move!")
    ELSE IF pks[a].flinch
    THEN Return([pks EXCEPT ![a].flinch = FALSE], "flinched and couldn't move!")
    ELSE IF pks[a].status = "freeze" /\ ~RandomBelow(rnd.thaw, 1, 5)
    THEN Return(pks, "is frozen solid!")
    ELSE IF pks[a].status = "freeze"
    THEN [TryMove([pks EXCEPT ![a].status = "none", ![a].status_turns = 0],
                  eng, a, d, move_name, rnd) EXCEPT !.thawed = TRUE]
    ELSE TryMove(pks, eng, a, d, move_name, rnd)

\* BattleEngine.use_move up to the call of _apply_move_effects; effects says
\* whether that call is reached.  pks is <<pokemon1, pokemon2>>, a and d the
\* indices of attacker and defender, rnd the random draws.
UseMove(pks, eng, a, d, move_name, rnd) ==
    IF IsFainted(pks[a]) THEN Return(pks, "has fainted and cannot move!")
    ELSE IF pks[a].flinch
    THEN Return([pks EXCEPT ![a].flinch = FALSE], "flinched and couldn't move!")
    ELSE IF pks[a].status = "sleep" THEN Return(pks, "is fast asleep!")
    ELSE IF pks[a].status = "freeze" /\ ~RandomBelow(rnd.thaw, 1, 5)
    THEN Return(pks, "is frozen solid!")
    ELSE IF pks[a].status = "freeze"
    THEN [TryMove([pks EXCEPT ![a].status = "none", ![a].status_turns = 0],
                  eng, a, d, move_name, rnd) EXCEPT !.thawed = TRUE]
    ELSE TryMove(pks, eng, a, d, move_name, rnd)

\* BattleEngine._apply_move_effects: status_moves, in dict order
StatusMoves ==
    << <<"poison", <<"poison-powder", "toxic", "sludge-bomb", "poison-jab">> >>,
       <<"badly-poisoned", <<"toxic">> >>,
       <<"burn", <<"will-o-wisp", "flamethrower", "fire-blast", "lava-plume">> >>,
       <<"paralysis", <<"thunder-wave", "thunderbolt", "thunder", "body-slam">> >>,
       <<"sleep", <<"sleep-powder", "spore", "hypnosis", "lovely-kiss">> >>,
       <<"freeze", <<"ice-beam", "blizzard", "freeze-dry">> >>,
       <<"confusion", <<"confuse-ray", "supersonic", "swagger">> >> >>

StatusNames == {StatusMoves[i][1] : i \in 1..Len(StatusMoves)}

\* random.randint(1, 4)
StatusTurnsLo == 1

StatusTurnsHi == 4

\* a status loop that does not test whether the defender has a status
RECURSIVE ApplyStatusEffectsOverwrite(_, _, _, _, _, _)
ApplyStatusEffectsOverwrite(defender, move_name, effect_chance, rolls, turns, i) ==
    IF i > Len(StatusMoves) THEN defender
    ELSE ApplyStatusEffectsOverwrite(
             IF AnyIn(StatusMoves[i][2], move_name)
                /\ RandomBelow(rolls[StatusMoves[i][1]], effect_chance, 100)
             THEN [defender EXCEPT !.status = StatusMoves[i][1], !.status_turns = turns]
             ELSE defender,
             move_name, effect_chance, rolls, turns, i + 1)

\* BattleEngine._apply_move_effects: the status loop from entry i on
RECURSIVE ApplyStatusEffects(_, _, _, _, _, _)
ApplyStatusEffects(defender, move_name, effect_chance, rolls, turns, i) ==
    IF i > Len(StatusMoves) THEN defender
    ELSE LET status == StatusMoves[i][1]
             next   == IF AnyIn(StatusMoves[i][2], move_name) /\ defender.status = "none"
                          /\ RandomBelow(rolls[status], effect_chance, 100)
                       THEN [defender EXCEPT
                               !.status = status,
                               !.status_turns =
                                   IF status \in {"sleep", "freeze", "confusion"} THEN turns
                                   ELSE IF status = "badly-poisoned" THEN 1
                                   ELSE @]
                       ELSE defender
         IN  ApplyStatusEffects(next, move_name, effect_chance, rolls, turns, i + 1)

\* BattleEngine._apply_move_effects: stat_moves, in dict order
StatMoves ==
    << <<"attack", "swords-dance", 2>>, <<"attack", "howl", 1>>, <<"attack", "meditate", 1>>,
       <<"defense", "harden", 1>>, <<"defense", "withdraw", 1>>, <<"defense", "iron-defense", 2>>,
       <<"special-attack", "nasty-plot", 2>>, <<"special-attack", "calm-mind", 1>>,
       <<"special-defense", "amnesia", 2>>, <<"special-defense", "calm-mind", 1>>,
       <<"speed", "agility", 2>>, <<"speed", "quick-attack", 1>>, <<"speed", "flame-charge", 1>>,
       <<"accuracy", "hone-claws", 1>>,
       <<"evasion", "double-team", 1>>, <<"evasion", "minimize", 2>> >>

\* a stage that is not clamped
UnclampedStage(stage) == stage

\* min(6, max(-6, stage + boost))
ClampStage(stage) == Min(6, Max(0 - 6, stage))

\* a stat loop whose target is the defender unless the effect text names the
\* user
RECURSIVE ApplyStatModificationsOnTarget(_, _, _, _, _)
ApplyStatModificationsOnTarget(pks, a, d, move_name, i) ==
    IF i > Len(StatMoves) THEN pks
    ELSE LET stat   == StatMoves[i][1]
             boost  == StatMoves[i][3]
             target == IF pks[a].move_data[move_name].effect_self THEN a ELSE d
             next   == IF In(StatMoves[i][2], move_name)
                       THEN [pks EXCEPT ![target].stat_modifiers[stat] = ClampStage(@ + boost)]
                       ELSE pks
         IN  ApplyStatModificationsOnTarget(next, a, d, move_name, i + 1)

\* BattleEngine._apply_move_effects: the stat loop from entry i on; the
\* target is the attacker on both branches of the 'self' test
RECURSIVE ApplyStatModifications(_, _, _, _, _)
ApplyStatModifications(pks, a, d, move_name, i) ==
    IF i > Len(StatMoves) THEN pks
    ELSE LET stat   == StatMoves[i][1]
             boost  == StatMoves[i][3]
             target == IF pks[a].move_data[move_name].effect_self THEN a ELSE a
             next   == IF In(StatMoves[i][2], move_name)
                       THEN [pks EXCEPT ![target].stat_modifiers[stat] = ClampStage(@ + boost)]
                       ELSE pks
         IN  ApplyStatModifications(next, a, d, move_name, i + 1)

\* BattleEngine._apply_move_effects: weather_moves and terrain_moves
WeatherMoves ==
    << <<"sunny-day", "sun">>, <<"rain-dance", "rain">>,
       <<"sandstorm", "sandstorm">>, <<"hail", "hail">> >>

TerrainMoves ==
    << <<"grassy-terrain", "grassy">>, <<"misty-terrain", "misty">>,
       <<"electric-terrain", "electric">>, <<"psychic-terrain", "psychic">> >>

\* the number of turns _apply_move_effects passes to set_weather / set_terrain
FieldTurns == 5

RECURSIVE ApplyWeatherMoves(_, _, _)
ApplyWeatherMoves(eng, move_name, i) ==
    IF i > Len(WeatherMoves) THEN eng
    ELSE ApplyWeatherMoves(IF In(WeatherMoves[i][1], move_name)
                           THEN SetWeather(eng, WeatherMoves[i][2], FieldTurns) ELSE eng,
                           move_name, i + 1)

RECURSIVE ApplyTerrainMoves(_, _, _)
ApplyTerrainMoves(eng, move_name, i) ==
    IF i > Len(TerrainMoves) THEN eng
    ELSE ApplyTerrainMoves(IF In(TerrainMoves[i][1], move_name)
                           THEN SetTerrain(eng, TerrainMoves[i][2], FieldTurns) ELSE eng,
                           move_name, i + 1)

FlinchMoves == <<"fake-out", "air-slash", "iron-head", "rock-slide">>

CritMoves == <<"focus-energy", "laser-focus">>

\* (effect_chance_raw or 100), in percent
EffectChance(move_data) ==
    IF IsNone(move_data.effect_chance) \/ Val(move_data.effect_chance) = 0
    THEN 100 ELSE Val(move_data.effect_chance)

\* a Rest that puts the user to sleep without restoring its HP
ApplyRestNoHeal(attacker, move_name) ==
    IF In("rest", move_name)
    THEN [attacker EXCEPT !.status = "sleep", !.status_turns = 2]
    ELSE attacker

\* BattleEngine._apply_move_effects: the self-status move (Rest)
ApplyRest(attacker, move_name) ==
    IF In("rest", move_name)
    THEN [attacker EXCEPT !.current_hp = attacker.max_hp, !.status = "sleep", !.status_turns = 2]
    ELSE attacker

\* BattleEngine._apply_move_effects: the flinch branch
ApplyFlinch(pks, d, move_name, effect_chance, flinch_draw) ==
    IF AnyIn(FlinchMoves, move_name) /\ RandomBelow(flinch_draw, effect_chance, 100)
    THEN [pks EXCEPT ![d].flinch = TRUE] ELSE pks

\* BattleEngine._apply_move_effects: the critical hit boosting branch
ApplyCritBoost(pks, a, move_name) ==
    IF AnyIn(CritMoves, move_name)
    THEN [pks EXCEPT ![a].crit_stage = Min(3, @ + 1)] ELSE pks

\* BattleEngine._apply_move_effects: the status loop on the defender
ApplyStatus(pks, d, move_name, effect_chance, rnd) ==
    [pks EXCEPT ![d] = ApplyStatusEffects(@, move_name, effect_chance, rnd.status, rnd.turns, 1)]

\* BattleEngine._apply_move_effects: what it does to the two Pokemon
MoveEffectsOn(pks, a, d, move_name, effect_chance, rnd) ==
    [ApplyCritBoost(
        ApplyFlinch(
            ApplyStatModifications(ApplyStatus(pks, d, move_name, effect_chance, rnd),
                                   a, d, move_name, 1),
            d, move_name, effect_chance, rnd.flinch),
        a, move_name)
     EXCEPT ![a] = ApplyRest(@, move_name)]

\* BattleEngine._apply_move_effects; the multi-hit branch only adds a message
ApplyMoveEffects(pks, eng, a, d, move_name, rnd) ==
    [pokemon |-> MoveEffectsOn(pks, a, d, move_name,
                               EffectChance(pks[a].move_data[move_name]), rnd),
     engine  |-> ApplyTerrainMoves(ApplyWeatherMoves(eng, move_name, 1), move_name, 1)]

\* BattleEngine.battle_turn: priority of a chosen move
MovePriority(pk, move_name) ==
    IF move_name \in DOMAIN pk.move_data THEN pk.move_data[move_name].priority ELSE 0

\* speed // 4
Quarter(speed) == speed \div 4

\* a battle_turn that does not slow a paralysed Pokemon
TurnSpeedUnquartered(pk) == GetEffectiveStat(pk, "speed")

\* BattleEngine.battle_turn: speed used for the order
TurnSpeed(pk) ==
    IF pk.status = "paralysis" THEN Quarter(GetEffectiveStat(pk, "speed"))
    ELSE GetEffectiveStat(pk, "speed")

\* BattleEngine.battle_turn: quick_claw1 / quick_claw2
QuickClawRoll(pk, draw) ==
    /\ ItemType(pk) = "priority_chance"
    /\ Chance(draw, Get(item_data(pk), "chance", <<0, 1>>))

\* BattleEngine.battle_turn: the order from priorities and speeds
OrderOf(priority1, priority2, speed1, speed2, coin) ==
    IF priority1 > priority2
       \/ (priority1 = priority2 /\ (speed1 > speed2 \/ (speed1 = speed2 /\ coin)))
    THEN <<1, 2>>
    ELSE <<2, 1>>

\* BattleEngine.battle_turn: <<first, second>>; coin is random.choice([True, False])
TurnOrder(pks, move1, move2, coin) ==
    OrderOf(MovePriority(pks[1], move1), MovePriority(pks[2], move2),
            TurnSpeed(pks[1]), TurnSpeed(pks[2]), coin)

\* BattleEngine.battle_turn: the status damage loop
StatusDamagePhase(pks) ==
    [i \in 1..2 |-> IF ~IsFainted(pks[i]) THEN ApplyStatusDamage(pks[i]) ELSE pks[i]]

\* max(1, int(pokemon.max_hp / 16)) taken from current_hp
Buffet(pk) == [pk EXCEPT !.current_hp = Max(0, pk.current_hp - Max(1, pk.max_hp \div 16))]

\* BattleEngine._apply_weather_effects, for one Pokemon of the loop
WeatherEffect(eng, pk) ==
    IF IsFainted(pk) THEN pk
    ELSE IF eng.weather = "sandstorm"
    THEN (IF ~(\E i \in 1..Len(pk.types) : pk.types[i] \in {"rock", "ground", "steel"})
          THEN Buffet(pk) ELSE pk)
    ELSE IF eng.weather = "hail"
    THEN (IF ~(\E i \in 1..Len(pk.types) : pk.types[i] = "ice") THEN Buffet(pk) ELSE pk)
    ELSE pk

\* BattleEngine._apply_weather_effects
ApplyWeatherEffects(eng, pks) ==
    IF eng.weather = "none" THEN pks ELSE [i \in 1..2 |-> WeatherEffect(eng, pks[i])]

\* a Grassy Terrain that heals a fainted Pokemon as well
TerrainEffectRevives(pk) ==
    IF pk.current_hp < pk.max_hp
    THEN [pk EXCEPT !.current_hp = Min(pk.max_hp, pk.current_hp + Max(1, pk.max_hp \div 16))]
    ELSE pk

\* BattleEngine._apply_terrain_effects, for one Pokemon of the loop
TerrainEffect(pk) ==
    IF IsFainted(pk) THEN pk
    ELSE IF pk.current_hp < pk.max_hp
    THEN [pk EXCEPT !.current_hp = Min(pk.max_hp, pk.current_hp + Max(1, pk.max_hp \div 16))]
    ELSE pk

\* BattleEngine._apply_terrain_effects
ApplyTerrainEffects(eng, pks) ==
    IF eng.terrain = "grassy" THEN [i \in 1..2 |-> TerrainEffect(pks[i])] ELSE pks

\* a weather counter that is left as it is
WeatherTurnsKept(eng) == eng

\* BattleEngine.battle_turn: the weather counter
DecrementWeather(eng) ==
    IF eng.weather_turns > 0
    THEN IF eng.weather_turns - 1 = 0
         THEN [eng EXCEPT !.weather_turns = 0, !.weather = "none"]
         ELSE [eng EXCEPT !.weather_turns = eng.weather_turns - 1]
    ELSE eng

\* a terrain counter that is left as it is
TerrainTurnsKept(eng) == eng

\* BattleEngine.battle_turn: the terrain counter
DecrementTerrain(eng) ==
    IF eng.terrain_turns > 0
    THEN IF eng.terrain_turns - 1 = 0
         THEN [eng EXCEPT !.terrain_turns = 0, !.terrain = "none"]
         ELSE [eng EXCEPT !.terrain_turns = eng.terrain_turns - 1]
    ELSE eng

\* BattleEngine.battle_turn: the weather and terrain counters
DecrementField(eng) == DecrementTerrain(DecrementWeather(eng))

\* BattleEngine.battle_turn after the two moves
EndOfTurnPhase(pks, eng) ==
    [pokemon |-> ApplyTerrainEffects(eng, ApplyWeatherEffects(eng, StatusDamagePhase(pks))),
     engine  |-> DecrementField(eng)]

----------------------------------------------------------------------------
(* class BattleSimulator *)

\* simulate_battle: max_turns
max_turns == 100

\* a loop that plays one turn more than max_turns
LoopConditionOffByOne(pks, turns) ==
    ~IsFainted(pks[1]) /\ ~IsFainted(pks[2]) /\ turns <= max_turns

\* simulate_battle: the loop condition
LoopCondition(pks, turns) ==
    ~IsFainted(pks[1]) /\ ~IsFainted(pks[2]) /\ turns < max_turns

\* a winner decided without the test for both having fainted
DetermineWinnerNoTie(pks) ==
    IF IsFainted(pks[1]) THEN "pokemon2 wins"
    ELSE IF IsFainted(pks[2]) THEN "pokemon1 wins"
    ELSE "draw"

\* simulate_battle: the winner
DetermineWinner(pks) ==
    IF IsFainted(pks[1]) /\ IsFainted(pks[2]) THEN "tie"
    ELSE IF IsFainted(pks[1]) THEN "pokemon2 wins"
    ELSE IF IsFainted(pks[2]) THEN "pokemon1 wins"
    ELSE "draw"

----------------------------------------------------------------------------
(* Inputs: species and move records as the data source returns them *)

StatDict(hp, attack, defense, special_attack, special_defense, speed) ==
    "hp" :> hp @@ "attack" :> attack @@ "defense" :> defense @@
    "special-attack" :> special_attack @@ "special-defense" :> special_defense @@
    "speed" :> speed

\* pokemon_data records (types, base stats)
Species ==
    "pikachu"   :> [types |-> <<"electric">>, stats |-> StatDict(35, 55, 40, 50, 50, 90)] @@
    "geodude"   :> [types |-> <<"rock", "ground">>, stats |-> StatDict(40, 80, 100, 30, 30, 20)] @@
    "pidgey"    :> [types |-> <<"normal", "flying">>, stats |-> StatDict(40, 45, 40, 35, 35, 56)] @@
    "bulbasaur" :> [types |-> <<"grass", "poison">>, stats |-> StatDict(45, 49, 49, 65, 65, 45)] @@
    "gastly"    :> [types |-> <<"ghost", "poison">>, stats |-> StatDict(30, 35, 30, 100, 35, 80)] @@
    "umbreon"   :> [types |-> <<"dark">>, stats |-> StatDict(95, 65, 110, 60, 130, 65)] @@
    "machamp"   :> [types |-> <<"fighting">>, stats |-> StatDict(90, 130, 80, 65, 85, 55)]

MoveRecord(power, accuracy, type, damage_class, priority, effect_chance, effect_self) ==
    [power |-> power, accuracy |-> accuracy, type |-> type, damage_class |-> damage_class,
     priority |-> priority, effect_chance |-> effect_chance, crit_rate |-> 0,
     effect_self |-> effect_self]

\* move records of the data source
MoveAPI ==
    "tackle"          :> MoveRecord(Some(40), Some(100), "normal", "physical", 0, None, FALSE) @@
    "quick-attack"    :> MoveRecord(Some(40), Some(100), "normal", "physical", 1, None, FALSE) @@
    "earthquake"      :> MoveRecord(Some(100), Some(100), "ground", "physical", 0, None, FALSE) @@
    "thunderbolt"     :> MoveRecord(Some(90), Some(100), "electric", "special", 0, Some(10), FALSE) @@
    "vine-whip"       :> MoveRecord(Some(45), Some(100), "grass", "physical", 0, None, FALSE) @@
    "air-slash"       :> MoveRecord(Some(75), Some(95), "flying", "special", 0, Some(30), FALSE) @@
    "ice-beam"        :> MoveRecord(Some(90), Some(100), "ice", "special", 0, Some(10), FALSE) @@
    "rock-slide"      :> MoveRecord(Some(75), Some(90), "rock", "physical", 0, Some(30), FALSE) @@
    "thunder-wave"    :> MoveRecord(None, Some(90), "electric", "status", 0, None, FALSE) @@
    "toxic"           :> MoveRecord(None, Some(90), "poison", "status", 0, None, FALSE) @@
    "confuse-ray"     :> MoveRecord(None, Some(100), "ghost", "status", 0, None, FALSE) @@
    "spore"           :> MoveRecord(None, Some(100), "grass", "status", 0, None, FALSE) @@
    "swords-dance"    :> MoveRecord(None, None, "normal", "status", 0, None, FALSE) @@
    "harden"          :> MoveRecord(None, None, "normal", "status", 0, None, FALSE) @@
    "growl"           :> MoveRecord(None, Some(100), "normal", "status", 0, None, FALSE) @@
    "focus-energy"    :> MoveRecord(None, None, "normal", "status", 0, None, FALSE) @@
    "sunny-day"       :> MoveRecord(None, None, "fire", "status", 0, None, FALSE) @@
    "sandstorm"       :> MoveRecord(None, None, "rock", "status", 0, None, FALSE) @@
    "grassy-terrain"  :> MoveRecord(None, None, "grass", "status", 0, None, FALSE) @@
    "psychic-terrain" :> MoveRecord(None, None, "psychic", "status", 0, None, FALSE) @@
    "rest"            :> MoveRecord(None, None, "psychic", "status", 0, None, TRUE) @@
    "splash"          :> MoveRecord(None, None, "normal", "status", 0, None, FALSE)

\* a configuration Pokemon.__init__ is called with; every move request succeeds
Build(species, iv, moves, level, held_item) ==
    [species |-> species, iv |-> iv, moves |-> moves, level |-> level, held_item |-> held_item]

AllIVs(iv) == [s \in {StatNames[i] : i \in 1..Len(StatNames)} |-> iv]

NoEVs == [s \in {StatNames[i] : i \in 1..Len(StatNames)} |-> 0]

Construct(b) ==
    NewPokemon(Species[b.species], AllIVs(b.iv), NoEVs, b.moves, b.level, b.held_item,
               [m \in {b.moves[i] : i \in 1..Len(b.moves)} |-> Some(MoveAPI[m])])

----------------------------------------------------------------------------
(* The battle as a state machine *)

\* the draws a random call can return; a call the code does not reach draws nothing
Draws(reached) == IF reached THEN RandomDraws ELSE {"lo"}

HasPower(pk, move_name) ==
    move_name \in DOMAIN pk.move_data /\ ~IsNone(pk.move_data[move_name].power)

UseMoveDraws(attacker, defender, move_name) ==
    {[thaw |-> t, para |-> p, conf |-> c, acc |-> ac, crit |-> cr, factor |-> f, band |-> b] :
        t \in Draws(attacker.status = "freeze"),
        p \in Draws(attacker.status = "paralysis"),
        c \in Draws(attacker.status = "confusion"),
        ac \in AccuracyDraws,
        cr \in Draws(HasPower(attacker, move_name)),
        f \in IF HasPower(attacker, move_name) THEN RandomFactors ELSE {RandomFactorHi},
        b \in Draws(ItemType(defender) = "survival_chance")}

\* for each move name, the statuses whose status_moves entry matches it
MatchedStatuses ==
    [n \in DOMAIN Chars |->
        {StatusMoves[i][1] : i \in {j \in 1..Len(StatusMoves) : AnyIn(StatusMoves[j][2], n)}}]

MatchesFlinch == [n \in DOMAIN Chars |-> AnyIn(FlinchMoves, n)]

MoveEffectDraws(move_name) ==
    {[status |-> s, turns |-> t, flinch |-> f] :
        s \in {r \in [StatusNames -> RandomDraws] :
                  \A x \in StatusNames \ MatchedStatuses[move_name] : r[x] = "lo"},
        t \in IF MatchedStatuses[move_name] \cap {"sleep", "freeze", "confusion"} # {}
              THEN StatusTurnsLo..StatusTurnsHi ELSE {StatusTurnsLo},
        f \in Draws(MatchesFlinch[move_name])}

NoMoves == <<"", "">>

MovesOf(pk) == {pk.moves[i] : i \in 1..Len(pk.moves)}

\* the state after use_move returned r; the next step is its move effects if
\* it reached them
MoveStep(r, effects_pc, return_pc) ==
    /\ pokemon' = r.pokemon
    /\ pc' = IF r.effects THEN effects_pc ELSE return_pc

\* the state after a step that returned the two Pokemon and the field
FieldStep(r) ==
    /\ pokemon' = r.pokemon
    /\ engine' = r.engine

\* simulate_battle: one pass of the loop up to the order of battle_turn
Turn ==
    /\ pc = "loop"
    /\ LoopCondition(pokemon, turn_count)
    /\ turn_count' = turn_count + 1
    /\ \E move1 \in MovesOf(pokemon[1]), move2 \in MovesOf(pokemon[2]), coin \in BOOLEAN,
          d1 \in Draws(ItemType(pokemon[1]) = "priority_chance"),
          d2 \in Draws(ItemType(pokemon[2]) = "priority_chance") :
            /\ chosen' = <<move1, move2>>
            /\ quick_claw' = <<QuickClawRoll(pokemon[1], d1), QuickClawRoll(pokemon[2], d2)>>
            /\ order' = TurnOrder(pokemon, move1, move2, coin)
    /\ pc' = "first"
    /\ UNCHANGED <<pokemon, engine, winner, battles, ret>>

\* battle_turn: use_move(first, second, first_move) up to its move effects
FirstMove ==
    /\ pc = "first"
    /\ \E rnd \in UseMoveDraws(pokemon[order[1]], pokemon[order[2]], chosen[order[1]]) :
          MoveStep(UseMove(pokemon, engine, order[1], order[2], chosen[order[1]], rnd),
                   "first_effects", "second")
    /\ UNCHANGED <<engine, turn_count, chosen, order, quick_claw, winner, battles, ret>>

\* use_move(first, second, first_move): _apply_move_effects
FirstEffects ==
    /\ pc = "first_effects"
    /\ \E rnd \in MoveEffectDraws(chosen[order[1]]) :
          FieldStep(ApplyMoveEffects(pokemon, engine, order[1], order[2], chosen[order[1]], rnd))
    /\ pc' = "second"
    /\ UNCHANGED <<turn_count, chosen, order, quick_claw, winner, battles, ret>>

\* battle_turn: use_move(second, first, second_move) if second has not fainted
SecondMove ==
    /\ pc = "second"
    /\ IF ~IsFainted(pokemon[order[2]])
       THEN \E rnd \in UseMoveDraws(pokemon[order[2]], pokemon[order[1]], chosen[order[2]]) :
               MoveStep(UseMove(pokemon, engine, order[2], order[1], chosen[order[2]], rnd),
                        "second_effects", "end")
       ELSE /\ pc' = "end"
            /\ UNCHANGED pokemon
    /\ UNCHANGED <<engine, turn_count, chosen, order, quick_claw, winner, battles, ret>>

\* use_move(second, first, second_move): _apply_move_effects
SecondEffects ==
    /\ pc = "second_effects"
    /\ \E rnd \in MoveEffectDraws(chosen[order[2]]) :
          FieldStep(ApplyMoveEffects(pokemon, engine, order[2], order[1], chosen[order[2]], rnd))
    /\ pc' = "end"
    /\ UNCHANGED <<turn_count, chosen, order, quick_claw, winner, battles, ret>>

\* battle_turn: status damage, weather, terrain, counters; then it returns
EndOfTurn ==
    /\ pc = "end"
    /\ FieldStep(EndOfTurnPhase(pokemon, engine))
    /\ pc' = "loop"
    /\ chosen' = NoMoves
    /\ order' = <<1, 2>>
    /\ quick_claw' = <<FALSE, FALSE>>
    /\ UNCHANGED <<turn_count, winner, battles, ret>>

\* simulate_battle: the loop ends and the winner is returned
Finish ==
    /\ pc = "loop"
    /\ ~LoopCondition(pokemon, turn_count)
    /\ winner' = DetermineWinner(pokemon)
    /\ pc' = "done"
    /\ UNCHANGED <<pokemon, engine, turn_count, chosen, order, quick_claw, battles, ret>>

\* the battles checked: pairs of configurations
Scenarios ==
    { <<Build("pikachu", 31, <<"thunderbolt", "quick-attack">>, 1, "life-orb"),
        Build("pidgey", 0, <<"quick-attack", "air-slash">>, 1, "focus-sash")>>,
      <<Build("bulbasaur", 0, <<"splash", "spore">>, 1, "none"),
        Build("geodude", 0, <<"harden">>, 1, "leftovers")>>,
      <<Build("gastly", 0, <<"toxic">>, 1, "none"),
        Build("bulbasaur", 31, <<"splash">>, 1, "none")>>,
      <<Build("pikachu", 0, <<"tackle">>, 1, "none"),
        Build("geodude", 31, <<"earthquake", "thunder-wave">>, 1, "quick-claw")>>,
      <<Build("pidgey", 0, <<"tackle">>, 1, "none"),
        Build("umbreon", 0, <<"rest">>, 5, "leftovers")>>,
      <<Build("pikachu", 0, <<"splash">>, 1, "none"),
        Build("geodude", 0, <<"rock-slide">>, 1, "none")>>,
      <<Build("pikachu", 0, <<"swords-dance", "focus-energy">>, 1, "none"),
        Build("bulbasaur", 0, <<"splash">>, 1, "none")>>,
      <<Build("geodude", 0, <<"sunny-day", "sandstorm", "splash">>, 50, "none"),
        Build("geodude", 0, <<"splash">>, 1, "none")>>,
      <<Build("geodude", 0, <<"grassy-terrain", "psychic-terrain", "splash">>, 50, "none"),
        Build("geodude", 0, <<"splash">>, 1, "none")>> }

StartBattle(sc) ==
    /\ pokemon = <<Construct(sc[1]), Construct(sc[2])>>
    /\ pc = "loop"
    /\ turn_count = 0
    /\ chosen = NoMoves
    /\ order = <<1, 2>>
    /\ quick_claw = <<FALSE, FALSE>>
    /\ winner = "none"

Init ==
    /\ \E sc \in Scenarios : StartBattle(sc)
    /\ engine = NewEngine
    /\ battles = 1
    /\ ret = <<>>

Next ==
    \/ Turn
    \/ FirstMove
    \/ FirstEffects
    \/ SecondMove
    \/ SecondEffects
    \/ EndOfTurn
    \/ Finish

Spec == Init /\ [][Next]_vars

----------------------------------------------------------------------------
(* Several battles on one BattleSimulator: PokemonBattlePipeline.main_menu    *)
(* calls simulate_battle on self.battle_simulator once per battle, each time  *)
(* with two newly constructed Pokemon.                                        *)

MaxBattles == 2

SeqScenarios ==
    { <<Build("geodude", 31, <<"earthquake", "sunny-day">>, 1, "none"),
        Build("pikachu", 0, <<"tackle">>, 1, "none")>>,
      <<Build("pidgey", 0, <<"tackle">>, 1, "none"),
        Build("bulbasaur", 0, <<"grassy-terrain", "tackle">>, 1, "none")>> }

InitSeq ==
    /\ \E sc \in SeqScenarios : StartBattle(sc)
    /\ engine = NewEngine
    /\ battles = 1
    /\ ret = <<>>

\* main_menu: the next battle on the same simulator
NewBattle ==
    /\ pc = "done"
    /\ battles < MaxBattles
    /\ battles' = battles + 1
    /\ \E sc \in SeqScenarios : pokemon' = <<Construct(sc[1]), Construct(sc[2])>>
    /\ pc' = "loop"
    /\ turn_count' = 0
    /\ winner' = "none"
    /\ UNCHANGED <<engine, chosen, order, quick_claw, ret>>

NextSeq ==
    \/ Turn
    \/ FirstMove
    \/ FirstEffects
    \/ SecondMove
    \/ SecondEffects
    \/ EndOfTurn
    \/ Finish
    \/ NewBattle

SpecSeq == InitSeq /\ [][NextSeq]_vars

----------------------------------------------------------------------------
(* Direct calls of BattleEngine.calculate_damage: the attacker and the       *)
(* defender in states a battle brings them to (a burn, raised and lowered    *)
(* stages), on every field, for each move of the attacker.                   *)

DamageAttackers ==
    {Build("pikachu", iv, <<"thunderbolt", "vine-whip", "tackle", "swords-dance">>, 1, item) :
        iv \in {0, 31}, item \in {"none", "life-orb", "expert-belt"}}
    \cup {Build("pikachu", 31, <<"thunderbolt", "vine-whip", "tackle", "swords-dance">>, 50, "none"),
          Build("machamp", 30, <<"earthquake", "tackle">>, 50, "none")}

DamageDefenders ==
    {Build(sp, 0, <<"harden">>, 1, "none") : sp \in {"geodude", "gastly", "bulbasaur", "pidgey"}}
    \cup {Build("machamp", 30, <<"harden">>, 50, "none")}

DamageFields ==
    {[weather |-> w, weather_turns |-> IF w = "none" THEN 0 ELSE FieldTurns,
      terrain |-> t, terrain_turns |-> IF t = "none" THEN 0 ELSE FieldTurns] :
        w \in {"none", "sun", "rain"}, t \in {"none", "electric", "grassy"}}

\* the attacker and the defender with their attacking and defending stages set
StagedPair(a, d, st, up, hard) ==
    <<[Construct(a) EXCEPT !.status = st,
                           !.stat_modifiers["attack"] = up,
                           !.stat_modifiers["special-attack"] = up],
      [Construct(d) EXCEPT !.stat_modifiers["defense"] = hard,
                           !.stat_modifiers["special-defense"] = hard]>>

InitDamage ==
    /\ \E a \in DamageAttackers, d \in DamageDefenders,
          st \in {"none", "burn"}, up \in {0 - 2, 0, 2}, hard \in {0, 1, 2} :
            /\ pokemon = StagedPair(a, d, st, up, hard)
            /\ \E i \in 1..Len(a.moves) : chosen = <<a.moves[i], "">>
    /\ engine \in DamageFields
    /\ pc = "call"
    /\ turn_count = 0
    /\ order = <<1, 2>>
    /\ quick_claw = <<FALSE, FALSE>>
    /\ winner = "none"
    /\ battles = 1
    /\ ret = <<>>

\* the state after calculate_damage returned r
DamageStep(r) ==
    /\ ret' = r
    /\ pokemon' = [pokemon EXCEPT ![1] = r.attacker]

\* calculate_damage(pokemon1, pokemon2, move_name)
CallCalculateDamage ==
    /\ pc = "call"
    /\ \E crit \in Draws(HasPower(pokemon[1], chosen[1])),
          factor \in IF HasPower(pokemon[1], chosen[1]) THEN RandomFactors ELSE {RandomFactorHi} :
            DamageStep(CalculateDamage(engine, pokemon[1], pokemon[2], chosen[1], crit, factor))
    /\ pc' = "called"
    /\ UNCHANGED <<engine, turn_count, chosen, order, quick_claw, winner, battles>>

NextDamage == CallCalculateDamage

SpecDamage == InitDamage /\ [][NextDamage]_vars

----------------------------------------------------------------------------
(* Direct calls of BattleEngine.use_move: the attacker and the defender in   *)
(* states a battle brings them to (a status, a flinch, lost HP), with and    *)
(* without Psychic Terrain, for each move of the attacker and for moves it   *)
(* has no record of.                                                         *)

MoveAttackers ==
    {Build("pikachu", 31, <<"thunderbolt", "quick-attack", "thunder-wave", "tackle">>, 1,
           "life-orb"),
     Build("gastly", 0, <<"toxic", "confuse-ray", "spore", "rest">>, 1, "none"),
     Build("pidgey", 31, <<"air-slash", "rock-slide", "tackle", "thunder-wave">>, 1, "life-orb")}

MoveDefenders ==
    {Build("pidgey", 0, <<"splash">>, 1, "focus-sash"),
     Build("geodude", 0, <<"splash">>, 1, "focus-band"),
     Build("umbreon", 0, <<"splash">>, 1, "none"),
     Build("bulbasaur", 0, <<"splash">>, 1, "none")}

\* status, status_turns and flinch flag of the attacker at the call
AttackerStates ==
    {<<"none", 0, FALSE>>, <<"none", 0, TRUE>>, <<"freeze", 2, FALSE>>,
     <<"paralysis", 0, FALSE>>, <<"confusion", 2, FALSE>>, <<"sleep", 2, FALSE>>,
     <<"sleep", 2, TRUE>>, <<"freeze", 2, TRUE>>}

\* status and status_turns of the defender at the call
DefenderStates == {<<"none", 0>>, <<"burn", 0>>, <<"sleep", 2>>}

MoveFields ==
    {NewEngine, [terrain |-> "psychic", terrain_turns |-> 3, weather |-> "none", weather_turns |-> 0]}

InitMove ==
    /\ \E a \in MoveAttackers, d \in MoveDefenders, sa \in AttackerStates,
          sd \in DefenderStates, lost \in {0, 1} :
            pokemon = <<[Construct(a) EXCEPT !.status = sa[1], !.status_turns = sa[2],
                                             !.flinch = sa[3]],
                        [Construct(d) EXCEPT !.status = sd[1], !.status_turns = sd[2],
                                             !.current_hp = @ - lost]>>
    /\ engine \in MoveFields
    /\ \E a \in MoveAttackers, i \in 1..4 : chosen = <<a.moves[i], "">>
    /\ pc = "use"
    /\ turn_count = 0
    /\ order = <<1, 2>>
    /\ quick_claw = <<FALSE, FALSE>>
    /\ winner = "none"
    /\ battles = 1
    /\ ret = <<>>

\* BattleEngine.use_move: the call of _apply_move_effects, if r reached it
FinishMove(r, eng, a, d, move_name, rnd) ==
    IF r.effects THEN ApplyMoveEffects(r.pokemon, eng, a, d, move_name, rnd)
    ELSE [pokemon |-> r.pokemon, engine |-> eng]

\* the state after use_move returned; r is the call up to its move effects
UseMoveStep(r, rnd) ==
    /\ ret' = [msg |-> r.msg, damage |-> r.damage, effects |-> r.effects, thawed |-> r.thawed]
    /\ FieldStep(FinishMove(r, engine, 1, 2, chosen[1], rnd))

\* use_move(pokemon1, pokemon2, move_name)
CallUseMove ==
    /\ pc = "use"
    /\ \E rnd \in UseMoveDraws(pokemon[1], pokemon[2], chosen[1]),
          ernd \in MoveEffectDraws(chosen[1]) :
            UseMoveStep(UseMove(pokemon, engine, 1, 2, chosen[1], rnd), ernd)
    /\ pc' = "used"
    /\ UNCHANGED <<turn_count, chosen, order, quick_claw, winner, battles>>

NextMove == CallUseMove

SpecMove == InitMove /\ [][NextMove]_vars

----------------------------------------------------------------------------
(* Battles that start with a status on the first Pokemon: status and         *)
(* status_turns as the status loop of _apply_move_effects sets them, sleep,  *)
(* freeze and confusion for 1 to 4 turns, badly-poisoned with counter 1 and  *)
(* paralysis, which has no counter.                                          *)

ForcedScenarios ==
    {<<Build(b[1], 0, <<"splash">>, b[2], "none"), "badly-poisoned", 1>> :
        b \in {<<"pidgey", 1>>, <<"pidgey", 3>>, <<"pikachu", 4>>, <<"umbreon", 5>>,
               <<"pikachu", 50>>}}
    \cup {<<Build("pidgey", 0, <<"tackle">>, 1, "none"), "sleep", t>> :
              t \in StatusTurnsLo..StatusTurnsHi}
    \cup {<<Build("pikachu", 0, <<"tackle">>, 1, "none"), "freeze", t>> :
              t \in StatusTurnsLo..StatusTurnsHi}
    \cup {<<Build("geodude", 0, <<"tackle">>, 1, "none"), "confusion", t>> :
              t \in StatusTurnsLo..StatusTurnsHi}
    \cup {<<Build("pidgey", 0, <<"splash", "rest">>, 1, "none"), "paralysis", 0>>}

InitForced ==
    /\ \E sc \in ForcedScenarios :
          pokemon = <<[Construct(sc[1]) EXCEPT !.status = sc[2], !.status_turns = sc[3]],
                      Construct(Build("bulbasaur", 0, <<"splash">>, 1, "none"))>>
    /\ pc = "loop"
    /\ turn_count = 0
    /\ chosen = NoMoves
    /\ order = <<1, 2>>
    /\ quick_claw = <<FALSE, FALSE>>
    /\ winner = "none"
    /\ engine = NewEngine
    /\ battles = 1
    /\ ret = <<>>

SpecForced == InitForced /\ [][Next]_vars

----------------------------------------------------------------------------
(* Construction followed by a battle: PokemonBattlePipeline builds each      *)
(* Pokemon with Pokemon(...) and hands the two to simulate_battle.  The      *)
(* arguments of the first call range over valid and invalid ones, and the    *)
(* requests for its move data succeed or fail.                               *)

\* the limits the interactive callers keep to
MaxEVTotal == 510

MaxIV == 31

MaxLevel == 100

\* arguments of a Pokemon(...) call: every IV is iv and every EV is ev;
\* fetched says whether the requests of _load_move_data succeed
Args(iv, ev, moves, level, fetched) ==
    [species |-> "pikachu", iv |-> iv, ev |-> ev, moves |-> moves, level |-> level,
     held_item |-> "none", fetched |-> fetched]

\* the calls checked: each argument at and beyond its limits
ConstructorArgs ==
    {Args(iv, 0, <<"tackle">>, 1, TRUE) : iv \in {0 - 1, 0, MaxIV, MaxIV + 1}}
    \cup {Args(0, ev, <<"tackle">>, 1, TRUE) :
              ev \in {MaxEVTotal \div 6, (MaxEVTotal \div 6) + 1}}
    \cup {Args(0, 0, <<"tackle">>, level, TRUE) : level \in {0, MaxLevel, MaxLevel + 1}}
    \cup {Args(0, 0, moves, 1, fetched) :
              moves \in {<<>>, <<"tackle">>, <<"growl">>, <<"tackle", "growl">>},
              fetched \in BOOLEAN}

InitConstruct ==
    /\ ret \in ConstructorArgs
    /\ pokemon = <<>>
    /\ pc = "new"
    /\ turn_count = 0
    /\ chosen = NoMoves
    /\ order = <<1, 2>>
    /\ quick_claw = <<FALSE, FALSE>>
    /\ winner = "none"
    /\ engine = NewEngine
    /\ battles = 1

\* Pokemon(...) with the arguments ret, and a second Pokemon for the battle
CallPokemon ==
    /\ pc = "new"
    /\ pokemon' = <<NewPokemon(Species[ret.species], AllIVs(ret.iv),
                               [s \in {StatNames[i] : i \in 1..Len(StatNames)} |-> ret.ev],
                               ret.moves, ret.level, ret.held_item,
                               [m \in {ret.moves[i] : i \in 1..Len(ret.moves)} |->
                                   IF ret.fetched THEN Some(MoveAPI[m]) ELSE None]),
                    Construct(Build("pidgey", 0, <<"tackle">>, 1, "none"))>>
    /\ pc' = "loop"
    /\ UNCHANGED <<engine, turn_count, chosen, order, quick_claw, winner, battles, ret>>

NextConstruct ==
    \/ CallPokemon
    \/ Turn
    \/ FirstMove
    \/ FirstEffects
    \/ SecondMove
    \/ SecondEffects
    \/ EndOfTurn
    \/ Finish

SpecConstruct == InitConstruct /\ [][NextConstruct]_vars

----------------------------------------------------------------------------
(* Direct calls of Pokemon.get_effective_stat: a Pokemon of some level with  *)
(* one stat at some stage, holding an item or none                           *)

MinStage == 0 - 6

MaxStage == 6

StatItems == {"none", "choice-band", "choice-scarf", "assault-vest", "eviolite"}

StatLevels == {1, 50, MaxLevel}

InitStat ==
    /\ \E sp \in {"pidgey", "geodude"}, level \in StatLevels, item \in StatItems,
          stat_name \in ModifierNames \cap {StatNames[i] : i \in 1..Len(StatNames)},
          stage \in MinStage..MaxStage :
            /\ pokemon = <<[Construct(Build(sp, 0, <<"splash">>, level, item))
                               EXCEPT !.stat_modifiers[stat_name] = stage],
                           Construct(Build("pidgey", 0, <<"splash">>, 1, "none"))>>
            /\ chosen = <<stat_name, "">>
    /\ engine = NewEngine
    /\ pc = "stat"
    /\ turn_count = 0
    /\ order = <<1, 2>>
    /\ quick_claw = <<FALSE, FALSE>>
    /\ winner = "none"
    /\ battles = 1
    /\ ret = <<>>

\* pokemon1.get_effective_stat(stat_name)
CallGetEffectiveStat ==
    /\ pc = "stat"
    /\ ret' = GetEffectiveStat(pokemon[1], chosen[1])
    /\ pc' = "got"
    /\ UNCHANGED <<pokemon, engine, turn_count, chosen, order, quick_claw, winner, battles>>

NextStat == CallGetEffectiveStat

SpecStat == InitStat /\ [][NextStat]_vars

----------------------------------------------------------------------------
(* Construction of the two Pokemon of a battle from their base stat, IVs,    *)
(* EVs and level: every stat of a Pokemon has the same base stat, IV and EV, *)
(* and the second Pokemon has no smaller IV, EV or level than the first      *)

StatBases == {1, 45, 100, 255}

StatIVs == {0, 30, MaxIV}

StatEVs == {0, 3, 4, 252}

CalcLevels == {1, 50, 99, MaxLevel}

StatArgs(base_stat, iv, ev, level) ==
    [base_stat |-> base_stat, iv |-> iv, ev |-> ev, level |-> level]

StatArgPairs ==
    {<<StatArgs(b, iv1, ev1, l1), StatArgs(b, iv2, ev2, l2)>> :
        b \in StatBases,
        iv1 \in StatIVs, iv2 \in StatIVs, ev1 \in StatEVs, ev2 \in StatEVs,
        l1 \in CalcLevels, l2 \in CalcLevels}

\* Pokemon(...) with the arguments args and the move splash
PokemonOf(args) ==
    NewPokemon([types |-> <<"normal">>,
                stats |-> StatDict(args.base_stat, args.base_stat, args.base_stat,
                                   args.base_stat, args.base_stat, args.base_stat)],
               AllIVs(args.iv), [s \in {StatNames[i] : i \in 1..Len(StatNames)} |-> args.ev],
               <<"splash">>, args.level, "none", [m \in {"splash"} |-> Some(MoveAPI[m])])

InitCalc ==
    /\ ret \in {p \in StatArgPairs : /\ p[1].iv <= p[2].iv
                                     /\ p[1].ev <= p[2].ev
                                     /\ p[1].level <= p[2].level}
    /\ pokemon = <<>>
    /\ pc = "new"
    /\ engine = NewEngine
    /\ turn_count = 0
    /\ chosen = NoMoves
    /\ order = <<1, 2>>
    /\ quick_claw = <<FALSE, FALSE>>
    /\ winner = "none"
    /\ battles = 1

\* the two Pokemon(...) calls
CallPokemonPair ==
    /\ pc = "new"
    /\ pokemon' = <<PokemonOf(ret[1]), PokemonOf(ret[2])>>
    /\ pc' = "made"
    /\ UNCHANGED <<engine, turn_count, chosen, order, quick_claw, winner, battles, ret>>

NextCalc == CallPokemonPair

SpecCalc == InitCalc /\ [][NextCalc]_vars

----------------------------------------------------------------------------
(* Battles in which moves inflict the timed statuses: confusion and freeze   *)
(* on a Pokemon that uses Rest, and sleep.  Next is that of every battle.    *)

TimedScenarios ==
    { <<Build("gastly", 0, <<"confuse-ray", "ice-beam">>, 1, "none"),
        Build("umbreon", 0, <<"rest">>, 1, "none")>>,
      <<Build("bulbasaur", 0, <<"spore">>, 1, "none"),
        Build("geodude", 0, <<"splash">>, 1, "none")>> }

InitTimed ==
    /\ \E sc \in TimedScenarios : StartBattle(sc)
    /\ engine = NewEngine
    /\ battles = 1
    /\ ret = <<>>

SpecTimed == InitTimed /\ [][Next]_vars

----------------------------------------------------------------------------
(* Battles without a damaging move, in which a Pokemon faints at the end of  *)
(* a turn from a sandstorm or from poison while Grassy Terrain is up or a    *)
(* healing item is held.  Next is that of every battle.                      *)

HealScenarios ==
    { <<Build("geodude", 0, <<"sandstorm">>, 1, "none"),
        Build("pidgey", 0, <<"splash", "grassy-terrain">>, 1, "none")>>,
      <<Build("geodude", 0, <<"toxic">>, 1, "none"),
        Build("pidgey", 0, <<"grassy-terrain">>, 5, "leftovers")>>,
      <<Build("geodude", 0, <<"toxic">>, 1, "none"),
        Build("bulbasaur", 0, <<"splash">>, 5, "black-sludge")>> }

InitHeal ==
    /\ \E sc \in HealScenarios : StartBattle(sc)
    /\ engine = NewEngine
    /\ battles = 1
    /\ ret = <<>>

SpecHeal == InitHeal /\ [][Next]_vars

----------------------------------------------------------------------------
(* PokemonSelector.get_user_moves.  ret holds available_moves and the moves  *)
(* list being filled; pc is "move" while a move is being asked for and       *)
(* "returned" after the return.  The other variables stay as they are.       *)

\* str.strip() on the lines typed
Stripped == " Random " :> "Random" @@ "   " :> "" @@ " growl" :> "growl" @@ "Toxic " :> "Toxic"

Strip(s) == IF s \in DOMAIN Stripped THEN Stripped[s] ELSE s

\* str.lower() on the stripped lines and on the move names
Lowered == "Random" :> "random" @@ "TACKLE" :> "tackle" @@ "Toxic" :> "toxic"

Lower(s) == IF s \in DOMAIN Lowered THEN Lowered[s] ELSE s

\* the lines input() returns
TypedLines ==
    {"random", " Random ", "", "   ", "pound", "TACKLE", "tackle", " growl",
     "vine-whip", "Toxic ", "splash", "transform"}

\* the available_moves lists get_user_moves is called with
MoveLists ==
    { <<"transform">>,
      <<"tackle", "growl", "vine-whip">>,
      <<"tackle", "growl", "vine-whip", "toxic">>,
      <<"tackle", "growl", "vine-whip", "toxic", "splash">> }

Elements(list) == {list[k] : k \in 1..Len(list)}

\* a remaining_moves list without the moves already selected
RemainingMovesAll(available_moves, moves) == Elements(available_moves)

\* remaining_moves = [move for move in available_moves if move not in moves]
RemainingMoves(available_moves, moves) == Elements(available_moves) \ Elements(moves)

\* next(move for move in available_moves if move.lower() == user_input)
ActualMove(available_moves, user_input) ==
    available_moves[CHOOSE k \in 1..Len(available_moves) :
                       /\ Lower(available_moves[k]) = user_input
                       /\ \A j \in 1..(k - 1) : Lower(available_moves[j]) # user_input]

\* the moves one pass of the while loop may append for the line typed: one of
\* the remaining moves for 'random', the move named if it is not selected yet,
\* none for any other line
Selected(available_moves, moves, line) ==
    LET user_input == Lower(Strip(line))
    IN  IF user_input = "random"
        THEN RemainingMoves(available_moves, moves)
        ELSE IF user_input \in {Lower(m) : m \in Elements(available_moves)}
        THEN {ActualMove(available_moves, user_input)} \ Elements(moves)
        ELSE {}

InitSelect ==
    /\ \E list \in MoveLists : ret = [available_moves |-> list, moves |-> <<>>]
    /\ pc = "move"
    /\ pokemon = <<>>
    /\ engine = NewEngine
    /\ turn_count = 0
    /\ chosen = NoMoves
    /\ order = <<1, 2>>
    /\ quick_claw = <<FALSE, FALSE>>
    /\ winner = "none"
    /\ battles = 1

\* get_user_moves: one pass of the while loop; the move selected is appended
\* and the for loop goes on, returning after the fourth; any other line
\* prints a message and the loop asks again
ReadMove ==
    /\ pc = "move"
    /\ \E line \in TypedLines :
          LET sel == Selected(ret.available_moves, ret.moves, line)
          IN  IF sel # {}
              THEN \E m \in sel :
                      /\ ret' = [ret EXCEPT !.moves = Append(@, m)]
                      /\ pc' = IF Len(ret.moves) + 1 = 4 THEN "returned" ELSE "move"
              ELSE UNCHANGED <<ret, pc>>
    /\ UNCHANGED <<pokemon, engine, turn_count, chosen, order, quick_claw, winner, battles>>

NextSelect == ReadMove

\* the user goes on typing until a line is accepted
SpecSelect == InitSelect /\ [][NextSelect]_vars /\ WF_vars(ReadMove)

----------------------------------------------------------------------------
(* Properties *)

\* C1: at every point of a battle, whatever the moves chosen and the random
\* outcomes, each combatant has 0 <= current_hp <= max_hp
C1_HpInRange ==
    \A i \in 1..2 : pokemon[i].current_hp >= 0 /\ pokemon[i].current_hp <= pokemon[i].max_hp

\* a hit took a combatant to 0 while the other has lost part of its HP
C1_Witness ==
    /\ pc \in {"second", "end"}
    /\ \E i \in 1..2 : /\ pokemon[i].current_hp = 0
                       /\ pokemon[3 - i].current_hp > 0
                       /\ pokemon[3 - i].current_hp < pokemon[3 - i].max_hp

\* C2: once a combatant's current_hp is 0, no later step of the battle changes
\* its current_hp, status, status_turns, flinch flag or stat stages
C2_FaintedUntouched ==
    [][\A i \in 1..2 :
          pokemon[i].current_hp = 0 =>
              /\ pokemon'[i].current_hp = pokemon[i].current_hp
              /\ pokemon'[i].status = pokemon[i].status
              /\ pokemon'[i].status_turns = pokemon[i].status_turns
              /\ pokemon'[i].flinch = pokemon[i].flinch
              /\ pokemon'[i].stat_modifiers = pokemon[i].stat_modifiers]_vars

\* the steps simulate_battle has left at most: the turns left, each of at most
\* seven steps, and the steps left in the current turn
StepsLeft ==
    (max_turns - turn_count) * 7
    + (CASE pc = "first" -> 6
         [] pc = "first_effects" -> 5
         [] pc = "second" -> 4
         [] pc = "second_effects" -> 3
         [] pc = "end" -> 2
         [] pc = "loop" -> 1
         [] OTHER -> 0)

\* C3: simulate_battle terminates: battle_turn starts only while both
\* combatants have current_hp > 0, is run at most max_turns times, and the
\* battle then returns a result: every step uses up one of a bounded number
\* of steps left, and at the head of the loop the battle either starts a
\* turn or returns
C3_Terminates ==
    /\ [][StepsLeft' < StepsLeft]_vars
    /\ [](StepsLeft >= 0 /\ turn_count <= max_turns)
    /\ [](pc = "first" => /\ pokemon[1].current_hp > 0
                          /\ pokemon[2].current_hp > 0
                          /\ turn_count >= 1)
    /\ [](pc = "loop" => ENABLED (Turn \/ Finish))
    /\ [](pc = "done" => winner # "none")

\* a battle that used all of its turns and returned
C3_Witness == pc = "done" /\ turn_count = max_turns /\ winner # "none"

\* C4: the result is a tie exactly when both have current_hp = 0, a win for
\* combatant 2 exactly when only combatant 1 has, a win for combatant 1
\* exactly when only combatant 2 has, and a draw exactly when neither has
\* fainted and max_turns turns have been played
C4_Result ==
    pc = "done" =>
        /\ (winner = "tie") <=> (pokemon[1].current_hp = 0 /\ pokemon[2].current_hp = 0)
        /\ (winner = "pokemon2 wins") <=>
               (pokemon[1].current_hp = 0 /\ pokemon[2].current_hp # 0)
        /\ (winner = "pokemon1 wins") <=>
               (pokemon[2].current_hp = 0 /\ pokemon[1].current_hp # 0)
        /\ (winner = "draw") <=> (/\ pokemon[1].current_hp > 0
                                  /\ pokemon[2].current_hp > 0
                                  /\ turn_count = max_turns)

\* a battle returned a tie: both combatants fainted in the same turn
C4_Witness ==
    pc = "done" /\ winner = "tie" /\ pokemon[1].current_hp = 0 /\ pokemon[2].current_hp = 0

\* C5: whenever a battle starts its first turn the field is clear and both
\* combatants are at full HP with no status and all stat stages 0, for every
\* battle run on the same simulator
C5_FreshStart ==
    (pc = "loop" /\ turn_count = 0) =>
        /\ engine = NewEngine
        /\ \A i \in 1..2 : /\ pokemon[i].current_hp = pokemon[i].max_hp
                           /\ pokemon[i].status = "none"
                           /\ \A st \in ModifierNames : pokemon[i].stat_modifiers[st] = 0

\* C6: calculate_damage returns exactly 0 when the move's type effectiveness
\* against the defender is 0, or the move is status-class or has no power
C6_ZeroDamage ==
    (/\ pc = "called"
     /\ \/ IsNone(pokemon[1].move_data[chosen[1]].power)
        \/ pokemon[1].move_data[chosen[1]].damage_class = "status"
        \/ CalculateTypeEffectiveness(pokemon[1].move_data[chosen[1]].type,
                                      pokemon[2].types)[1] = 0)
    => ret.damage = 0

\* C7: calculate_damage returns at least 1 when the move has power > 0, is
\* physical or special, and its type effectiveness against the defender is > 0
C7_AtLeastOne ==
    (/\ pc = "called"
     /\ HasPower(pokemon[1], chosen[1])
     /\ Val(pokemon[1].move_data[chosen[1]].power) > 0
     /\ pokemon[1].move_data[chosen[1]].damage_class \in {"physical", "special"}
     /\ CalculateTypeEffectiveness(pokemon[1].move_data[chosen[1]].type,
                                   pokemon[2].types)[1] > 0)
    => ret.damage >= 1

\* a resisted hit whose damage truncates to 0 is returned as 1
C7_Witness ==
    /\ pc = "called"
    /\ HasPower(pokemon[1], chosen[1])
    /\ CalculateTypeEffectiveness(pokemon[1].move_data[chosen[1]].type,
                                  pokemon[2].types)[1] > 0
    /\ ret.final_damage = 0
    /\ ret.damage = 1

\* every move of pk has zero or absent power
NoPower(pk) ==
    \A m \in DOMAIN pk.move_data :
        IsNone(pk.move_data[m].power) \/ Val(pk.move_data[m].power) = 0

\* no move of pk is one _apply_move_effects turns into poison, bad poison,
\* burn or confusion, or into a sandstorm or hail, and pk holds no Black
\* Sludge that would damage it
NoIndirectDamage(pk) ==
    /\ \A m \in DOMAIN pk.move_data :
          /\ MatchedStatuses[m] \cap {"poison", "badly-poisoned", "burn", "confusion"} = {}
          /\ ~In("sandstorm", m)
          /\ ~In("hail", m)
    /\ ~(ItemType(pk) = "conditional_heal"
         /\ ~(\E i \in 1..Len(pk.types) : pk.types[i] = "poison"))

\* no combatant has fainted, and a battle that returned is a draw at the cap
NobodyFaints ==
    /\ \A i \in 1..2 : pokemon[i].current_hp > 0
    /\ pc = "done" => (winner = "draw" /\ turn_count = max_turns)

OrderIs(priority1, priority2, speed1, speed2) ==
    /\ priority1 > priority2 => order = <<1, 2>>
    /\ priority2 > priority1 => order = <<2, 1>>
    /\ (priority1 = priority2 /\ speed1 > speed2) => order = <<1, 2>>
    /\ (priority1 = priority2 /\ speed2 > speed1) => order = <<2, 1>>

\* effective speed, quartered by integer division under paralysis
QuarteredSpeed(pk) ==
    IF pk.status = "paralysis" THEN GetEffectiveStat(pk, "speed") \div 4
    ELSE GetEffectiveStat(pk, "speed")

C10_QuickClawFirst ==
    (/\ pc = "first"
     /\ MovePriority(pokemon[1], chosen[1]) = MovePriority(pokemon[2], chosen[2]))
    => \A i \in 1..2 : (quick_claw[i] /\ ~quick_claw[3 - i]) => order[1] = i

\* C11: in battle_turn the combatant ordered second executes its move only if
\* its current_hp is > 0 after the first combatant's action, and the first
\* combatant's use_move always runs before the second's: the second's use_move
\* is reached only from the first's, and a second combatant at 0 HP leaves the
\* turn's move phase with nothing changed
C11_SecondOnlyIfAlive ==
    [][/\ (pc = "second" /\ pokemon[order[2]].current_hp <= 0)
           => (pokemon' = pokemon /\ engine' = engine /\ pc' = "end")
       /\ pc' = "second_effects" => (pc = "second" /\ pokemon[order[2]].current_hp > 0)
       /\ pc' = "second" => pc \in {"first", "first_effects"}
       /\ pc = "first" => pc' \in {"first_effects", "second"}
       /\ pc' = "first" => pc = "loop"]_vars

\* the first combatant's move took the second to 0 HP before it could act
C11_Witness ==
    /\ pc = "second"
    /\ pokemon[order[2]].current_hp = 0
    /\ pokemon[order[1]].current_hp > 0

\* C12: whenever battle_turn has returned, both combatants' flinch flags are
\* false, whatever their status and held item and whichever of them inflicted
\* the flinch
C12_FlinchCleared ==
    (pc = "loop" /\ turn_count > 0) => \A i \in 1..2 : ~pokemon[i].flinch

\* C13: a combatant has one status or none, and a use_move against a defender
\* that already has a status, whatever status the move inflicts, leaves the
\* defender's status and status_turns as they were
C13_StatusKept ==
    /\ [](\A i \in 1..2 : pokemon[i].status \in StatusNames \cup {"none"})
    /\ [][(pc = "use" /\ pokemon[2].status # "none")
            => /\ pokemon'[2].status = pokemon[2].status
               /\ pokemon'[2].status_turns = pokemon[2].status_turns]_vars

\* the move effects of a status-inflicting move were applied to a burned
\* defender, which is still burned; no move of the attackers inflicts a burn
C13_Witness ==
    /\ pc = "used"
    /\ ret.effects
    /\ MatchedStatuses[chosen[1]] # {}
    /\ pokemon[2].status = "burn"

\* C14: the move effects of a move that inflicts badly-poisoned, applied with
\* an effect chance of 100% to a defender that has no status, leave the
\* defender badly-poisoned with status_turns = 1
C14_BadlyPoisoned ==
    [][\A k \in 1..2 :
          (/\ pc = (IF k = 1 THEN "first_effects" ELSE "second_effects")
           /\ "badly-poisoned" \in MatchedStatuses[chosen[order[k]]]
           /\ EffectChance(pokemon[order[k]].move_data[chosen[order[k]]]) = 100
           /\ pokemon[order[3 - k]].status = "none")
          => /\ pokemon'[order[3 - k]].status = "badly-poisoned"
             /\ pokemon'[order[3 - k]].status_turns = 1]_vars

MoveSteps == {k \in 1..2 : pc = (IF k = 1 THEN "first" ELSE "second")}

\* the call of use_move at step k reaches its _apply_move_effects
ReachesEffects(k) == pc' = (IF k = 1 THEN "first_effects" ELSE "second_effects")

\* the move chosen by pk cannot miss its target dk and is not blocked
CannotMiss(pk, dk, move_name) ==
    /\ FinalAccuracy(pk, dk, pk.move_data[move_name])[1]
           >= RandintHi * FinalAccuracy(pk, dk, pk.move_data[move_name])[2]
    /\ engine.terrain # "psychic"

\* C16: for a non-fainted combatant with sleep, freeze or confusion each
\* end-of-turn tick takes exactly one from status_turns, which is never below
\* 1 while the status lasts, and the status becomes none with status_turns 0
\* exactly at the tick that takes the counter to 0; a sleeping combatant's
\* use_move changes nothing and does not reach the move; a combatant with no
\* status that has not fainted or flinched, as one that has just woken up,
\* reaches its move
C16_Countdown ==
    /\ [](\A i \in 1..2 : pokemon[i].status \in {"sleep", "freeze", "confusion"}
                               => pokemon[i].status_turns >= 1)
    /\ [][\A i \in 1..2 :
             (/\ pc = "end"
              /\ pokemon[i].current_hp > 0
              /\ pokemon[i].status \in {"sleep", "freeze", "confusion"})
             => IF pokemon[i].status_turns > 1
                THEN /\ pokemon'[i].status = pokemon[i].status
                     /\ pokemon'[i].status_turns = pokemon[i].status_turns - 1
                ELSE /\ pokemon'[i].status = "none"
                     /\ pokemon'[i].status_turns = 0]_vars
    /\ [][\A k \in MoveSteps :
             pokemon[order[k]].status = "sleep"
             => (pokemon' = pokemon /\ engine' = engine /\ ~ReachesEffects(k))]_vars
    /\ [][\A k \in MoveSteps :
             (/\ pokemon[order[k]].status = "none"
              /\ pokemon[order[k]].current_hp > 0
              /\ ~pokemon[order[k]].flinch
              /\ CannotMiss(pokemon[order[k]], pokemon[order[3 - k]], chosen[order[k]]))
             => ReachesEffects(k)]_vars

\* the battle that pidgey starts asleep is in its second turn, pidgey is
\* awake and has hit bulbasaur: asleep through turn 1, it was woken by that
\* turn's tick, so its counter was 1, and it acted in turn 2
C16_Witness ==
    /\ turn_count = 2
    /\ pokemon[1].types = Species["pidgey"].types
    /\ pokemon[1].moves = <<"tackle">>
    /\ pokemon[1].status = "none"
    /\ pokemon[1].status_turns = 0
    /\ pokemon[2].current_hp < pokemon[2].max_hp

\* C17: a defender at full HP that holds the guaranteed-survival item has
\* current_hp >= 1 after any single use_move against it, and exactly 1 when
\* the damage calculate_damage returned was at least its current_hp
C17_FocusSash ==
    [][(/\ pc = "use"
        /\ pokemon[2].current_hp = pokemon[2].max_hp
        /\ ItemType(pokemon[2]) = "survival")
       => /\ pokemon'[2].current_hp >= 1
          /\ (ret'.effects /\ ret'.damage >= pokemon[2].current_hp)
                => pokemon'[2].current_hp = 1]_vars

\* a hit whose damage was at least the max_hp of a defender holding the item
\* left it at 1 HP; from less than full HP the same hit leaves 0
C17_Witness ==
    /\ pc = "used"
    /\ ItemType(pokemon[2]) = "survival"
    /\ ret.effects
    /\ ret.damage >= pokemon[2].max_hp
    /\ pokemon[2].current_hp = 1

\* use_move is called with Psychic Terrain active and a move of priority > 0
\* against a defender that has no dark type
PriorityBlocked ==
    /\ pc = "use"
    /\ engine.terrain = "psychic"
    /\ MovePriority(pokemon[1], chosen[1]) > 0
    /\ ~(\E i \in 1..Len(pokemon[2].types) : pokemon[2].types[i] = "dark")

\* the attacker of the call is able to act: it has not fainted, is not
\* flinching, asleep or frozen
AbleToAct ==
    /\ pokemon[1].current_hp > 0
    /\ ~pokemon[1].flinch
    /\ pokemon[1].status \notin {"sleep", "freeze"}

\* the messages with which use_move returns when the paralysis or the
\* confusion roll stops the attacker
StoppedByRoll == {"is paralyzed and can't move!", "hurt itself in confusion"}

\* C18: with Psychic Terrain active, use_move by an attacker that is able to
\* act and is not stopped by its paralysis or confusion roll, with a move of
\* priority > 0 against a defender without dark type, returns at the terrain
\* check, before the accuracy roll, damage and move effects, and has changed
\* no combatant's HP, status, stat stages, crit stage or flinch flag and
\* nothing of the field
C18_PriorityBlocked ==
    [][(PriorityBlocked /\ AbleToAct /\ ret'.msg \notin StoppedByRoll)
       => /\ ret'.msg = "The move was blocked by Psychic Terrain!"
          /\ ~ret'.effects
          /\ pokemon' = pokemon
          /\ engine' = engine]_vars

\* quick-attack against a defender at full HP with no dark type was blocked
\* by Psychic Terrain: the attacker could act and the defender is untouched
C18_Witness ==
    /\ pc = "used"
    /\ engine.terrain = "psychic"
    /\ chosen[1] = "quick-attack"
    /\ ret.msg = "The move was blocked by Psychic Terrain!"
    /\ pokemon[1].status = "none"
    /\ ~(\E i \in 1..Len(pokemon[2].types) : pokemon[2].types[i] = "dark")
    /\ pokemon[2].current_hp = pokemon[2].max_hp

\* C19: at every point of a battle, after any sequence of moves, every stat
\* stage of every combatant is within -6..6 and every crit_stage within 0..3
C19_StagesInRange ==
    \A i \in 1..2 :
        /\ \A st \in ModifierNames : pokemon[i].stat_modifiers[st] \in (0 - 6)..6
        /\ pokemon[i].crit_stage \in 0..3

\* seven turns of swords-dance (+2) and focus-energy (+1) against an opponent
\* that only splashes: the attack stage is 6 and the crit stage 3, which take
\* six of the seven moves, so one move was made at the limit
C19_Witness ==
    /\ pc = "loop"
    /\ turn_count = 7
    /\ pokemon[1].moves = <<"swords-dance", "focus-energy">>
    /\ pokemon[1].stat_modifiers["attack"] = 6
    /\ pokemon[1].crit_stage = 3

\* C20: the stat-stage change of a move is applied to the target its metadata
\* declares: when it declares the opponent, the opponent's stage changes by
\* the boost (within the limits) and the user's stages stay as they are; when
\* it declares self, the user's stage changes by the boost
C20_DeclaredTarget ==
    [][\A k \in 1..2 : \A j \in 1..Len(StatMoves) :
          (/\ pc = (IF k = 1 THEN "first_effects" ELSE "second_effects")
           /\ In(StatMoves[j][2], chosen[order[k]]))
          => IF pokemon[order[k]].move_data[chosen[order[k]]].effect_self
             THEN pokemon'[order[k]].stat_modifiers[StatMoves[j][1]]
                      = Min(6, pokemon[order[k]].stat_modifiers[StatMoves[j][1]] + StatMoves[j][3])
             ELSE /\ pokemon'[order[k]].stat_modifiers = pokemon[order[k]].stat_modifiers
                  /\ pokemon'[order[3 - k]].stat_modifiers[StatMoves[j][1]]
                         = Min(6, pokemon[order[3 - k]].stat_modifiers[StatMoves[j][1]]
                                  + StatMoves[j][3])]_vars

\* the move whose _apply_move_effects the next step runs, "" when the next
\* step is not one
EffectsMove ==
    IF pc = "first_effects" THEN chosen[order[1]]
    ELSE IF pc = "second_effects" THEN chosen[order[2]]
    ELSE ""

\* the weathers (terrains) whose setting move takes effect in the next step
FieldSet(field_moves) ==
    IF EffectsMove = "" THEN {}
    ELSE {field_moves[i][2] : i \in {j \in 1..Len(field_moves) : In(field_moves[j][1], EffectsMove)}}

\* C21: a weather (terrain) move that takes effect sets the counter to 5 and
\* the condition to its own, whatever was there before; the end-of-turn phase
\* of each turn takes exactly 1 from a positive counter and no other step
\* changes condition or counter; the condition is active exactly while the
\* counter is positive.  So a condition set in turn t has counters 4, 3, 2, 1
\* during turns t+1..t+4 and is none with counter 0 after the end-of-turn
\* phase of turn t+4.
C21_FieldCountdown ==
    /\ [](/\ engine.weather_turns \in 0..FieldTurns
          /\ engine.terrain_turns \in 0..FieldTurns
          /\ (engine.weather = "none") <=> (engine.weather_turns = 0)
          /\ (engine.terrain = "none") <=> (engine.terrain_turns = 0)
          /\ pc = "loop" => (engine.weather_turns < FieldTurns /\ engine.terrain_turns < FieldTurns))
    /\ [][/\ FieldSet(WeatherMoves) # {}
             => (engine'.weather \in FieldSet(WeatherMoves) /\ engine'.weather_turns = FieldTurns)
          /\ FieldSet(TerrainMoves) # {}
             => (engine'.terrain \in FieldSet(TerrainMoves) /\ engine'.terrain_turns = FieldTurns)]_vars
    /\ [][pc = "end"
          => /\ engine'.weather_turns = Max(0, engine.weather_turns - 1)
             /\ engine'.terrain_turns = Max(0, engine.terrain_turns - 1)
             /\ engine.weather_turns > 1 => engine'.weather = engine.weather
             /\ engine.terrain_turns > 1 => engine'.terrain = engine.terrain]_vars
    /\ [][/\ (pc # "end" /\ FieldSet(WeatherMoves) = {})
             => (engine'.weather = engine.weather /\ engine'.weather_turns = engine.weather_turns)
          /\ (pc # "end" /\ FieldSet(TerrainMoves) = {})
             => (engine'.terrain = engine.terrain /\ engine'.terrain_turns = engine.terrain_turns)]_vars

\* the end-of-turn phase of the fourth turn after a sandstorm replaced the
\* sunlight: the sandstorm is still there, with one turn left
C21_Witness ==
    /\ pc = "end"
    /\ engine.weather = "sandstorm"
    /\ engine.weather_turns = 1
    /\ turn_count >= 6

\* the Pokemon whose _apply_move_effects the next step runs, 0 when the next
\* step is not one
EffectsUser ==
    IF pc = "first_effects" THEN order[1]
    ELSE IF pc = "second_effects" THEN order[2]
    ELSE 0

\* C22: a paralysed Pokemon is still paralysed after every step of a battle
\* (each attempt to move, each move of the opponent, each end-of-turn phase),
\* except the step in which its own Rest takes effect
C22_ParalysisStays ==
    [][\A i \in 1..2 :
          (pokemon[i].status = "paralysis" /\ ~(EffectsUser = i /\ In("rest", EffectsMove)))
          => pokemon'[i].status = "paralysis"]_vars

\* a Pokemon paralysed from the first turn on that is still paralysed when the
\* battle ends after max_turns turns
C22_Witness ==
    /\ pc = "done"
    /\ turn_count = max_turns
    /\ pokemon[1].status = "paralysis"

\* C23: when the attacker holds the damage-boost item (Life Orb) and its move
\* with power hits, the attacker loses floor(max_hp / 10) HP, floored at 0,
\* whether or not the hit brings the defender to 0 HP
C23_LifeOrbRecoil ==
    [][(/\ pc = "use"
        /\ ret'.effects
        /\ ItemType(pokemon[1]) = "damage_boost"
        /\ HasPower(pokemon[1], chosen[1])
        /\ pokemon[1].move_data[chosen[1]].damage_class \in {"physical", "special"})
       => pokemon'[1].current_hp
            = Max(0, pokemon[1].current_hp
                     - Floor(<<pokemon[1].max_hp * item_data(pokemon[1])["recoil"][1],
                               item_data(pokemon[1])["recoil"][2]>>))]_vars

\* the Pokemon whose use_move the next step runs, 0 when the next step is not one
MoveUser ==
    IF pc = "first" THEN order[1]
    ELSE IF pc = "second" THEN order[2]
    ELSE 0

\* pks without the status of Pokemon i, which a thaw changes before the move
WithoutStatus(pks, i) == [pks EXCEPT ![i].status = "none", ![i].status_turns = 0]

\* C24: Rest applies only its own effect.  The step in which Rest is used and
\* not stopped deals no damage and changes neither Pokemon (but for a thaw of
\* the user); the step in which it takes effect leaves the user at
\* current_hp = max_hp, asleep with status_turns = 2 and otherwise as it was
\* (stat stages, crit stage, flinch flag), and leaves the opponent and the
\* field as they were
C24_RestOnly ==
    /\ [][(/\ MoveUser # 0
           /\ chosen[MoveUser] = "rest"
           /\ pc' \in {"first_effects", "second_effects"})
          => WithoutStatus(pokemon', MoveUser) = WithoutStatus(pokemon, MoveUser)]_vars
    /\ [][(EffectsUser # 0 /\ EffectsMove = "rest")
          => /\ pokemon' = [pokemon EXCEPT ![EffectsUser] =
                               [@ EXCEPT !.current_hp = pokemon[EffectsUser].max_hp, !.status = "sleep",
                                         !.status_turns = 2]]
             /\ engine' = engine]_vars

\* Rest is about to take effect on a user that has lost HP
C24_Witness ==
    /\ EffectsUser # 0
    /\ EffectsMove = "rest"
    /\ pokemon[EffectsUser].current_hp < pokemon[EffectsUser].max_hp
    /\ pokemon[EffectsUser].status = "none"

\* C25: use_move with a move the attacker has no record of, the attacker not
\* fainted, not flinching and without status, returns with the message that
\* it does not know the move, and both Pokemon (HP, status, stat stages,
\* flinch flag) and the field are as before
C25_UnknownMove ==
    [][(/\ pc = "use"
        /\ chosen[1] \notin DOMAIN pokemon[1].move_data
        /\ ~IsFainted(pokemon[1])
        /\ ~pokemon[1].flinch
        /\ pokemon[1].status = "none")
       => (/\ ret'.msg = "doesn't know"
           /\ ~ret'.effects
           /\ pokemon' = pokemon
           /\ engine' = engine)]_vars

\* use_move has returned for a move the attacker has no record of
C25_Witness ==
    /\ pc = "used"
    /\ chosen[1] \notin DOMAIN pokemon[1].move_data
    /\ pokemon[1].status = "none"
    /\ ~pokemon[1].flinch
    /\ ret.msg = "doesn't know"
    /\ engine.terrain = "psychic"

\* C26: a move whose data could not be obtained at construction gets no
\* record with substituted numbers; the Pokemon has no record of it, so that
\* using it cannot take HP from the opponent
C26_NoDefaults ==
    (pc # "new" /\ ~ret.fetched)
    => /\ \A i \in 1..Len(ret.moves) : ret.moves[i] \notin DOMAIN pokemon[1].move_data
       /\ pokemon[2].current_hp = pokemon[2].max_hp

\* the arguments the specification calls an invalid configuration
InvalidConfiguration(args) ==
    \/ 6 * args.ev > MaxEVTotal
    \/ args.iv \notin 0..MaxIV
    \/ args.level \notin 1..MaxLevel
    \/ args.moves = <<>>

\* C27: Pokemon(...) with an EV sum above 510, an IV outside [0,31], a level
\* outside [1,100] or an empty move list produces no Pokemon, and no battle
\* starts
C27_FailsFast ==
    InvalidConfiguration(ret) => (pokemon = <<>> /\ pc = "new" /\ turn_count = 0)

\* the stage multiplier of a stat at stage s, as a rational
StageMultiplier(s) ==
    IF s > 0 THEN <<2 + s, 2>> ELSE IF s < 0 THEN <<2, 2 + Abs(s)>> ELSE <<1, 1>>

\* the held-item multiplier of a stat: 1.5 where the item boosts that stat
HeldItemMultiplier(pk, stat_name) ==
    IF \/ ItemType(pk) = "stat_boost" /\ item_data(pk)["stat"] = stat_name
       \/ ItemType(pk) = "evolution_boost" /\ stat_name \in {"defense", "special-defense"}
    THEN <<3, 2>> ELSE <<1, 1>>

\* floor(calculated stat * stage multiplier * held-item multiplier)
TruncatedOnce(pk, stat_name) ==
    (pk.stats[stat_name] * StageMultiplier(pk.stat_modifiers[stat_name])[1]
                         * HeldItemMultiplier(pk, stat_name)[1])
    \div (StageMultiplier(pk.stat_modifiers[stat_name])[2] * HeldItemMultiplier(pk, stat_name)[2])

\* C28: get_effective_stat is the calculated stat times the stage multiplier
\* times the held-item multiplier, truncated once at the end
C28_SingleTruncation ==
    pc = "got" => ret = TruncatedOnce(pokemon[1], chosen[1])

\* pk with every stat stage at 0
StagesCleared(pk) == [pk EXCEPT !.stat_modifiers = [s \in ModifierNames |-> 0]]

\* the call is a critical hit of a move with power, nobody holds an item, the
\* stage of the attacking stat is negative and that of the defending stat positive
CriticalAgainstStages(crit_draw) ==
    /\ pc = "call"
    /\ HasPower(pokemon[1], chosen[1])
    /\ IsCritical(pokemon[1], chosen[1], crit_draw)
    /\ pokemon[1].held_item = "none"
    /\ pokemon[2].held_item = "none"
    /\ pokemon[1].stat_modifiers[AttackName(pokemon[1].move_data[chosen[1]].damage_class)] < 0
    /\ pokemon[2].stat_modifiers[DefenseName(pokemon[1].move_data[chosen[1]].damage_class)] > 0

\* C29: a critical hit with no held items, a negative stage of the attacker's
\* attacking stat and a positive stage of the defender's defending stat deals
\* the damage the same call deals with the stages of both at 0
C29_CriticalIgnoresStages ==
    [][\A crit_draw \in RandomDraws, random_factor \in RandomFactors :
          (/\ CriticalAgainstStages(crit_draw)
           /\ ret' = CalculateDamage(engine, pokemon[1], pokemon[2], chosen[1],
                                     crit_draw, random_factor))
          => ret'.damage = CalculateDamage(engine, StagesCleared(pokemon[1]),
                                           StagesCleared(pokemon[2]), chosen[1],
                                           crit_draw, random_factor).damage]_vars

\* a critical tackle by an attacker at -2 attack on a defender at +2 defense was
\* returned, with more damage than the lowered attack gives against the raised defense
C29_Witness ==
    /\ pc = "called"
    /\ chosen[1] = "tackle"
    /\ ret.is_critical
    /\ pokemon[1].held_item = "none"
    /\ pokemon[1].status = "none"
    /\ pokemon[1].level = 50
    /\ pokemon[1].stat_modifiers["attack"] = 0 - 2
    /\ pokemon[2].stat_modifiers["defense"] = 2
    /\ engine.weather = "none"
    /\ \A random_factor \in RandomFactors :
           ret.damage > CalculateDamage(engine, pokemon[1], pokemon[2], chosen[1],
                                        "hi", random_factor).damage * 3

\* the rational m is 1
IsOne(m) == m[1] = m[2]

\* the call is made at level 50 with a move of power 100, attack 150 against
\* defense 100, and every multiplier of the damage formula is 1
RegressionCall(crit_draw, random_factor) ==
    /\ pc = "call"
    /\ HasPower(pokemon[1], chosen[1])
    /\ pokemon[1].level = 50
    /\ Val(pokemon[1].move_data[chosen[1]].power) = 100
    /\ ~IsCritical(pokemon[1], chosen[1], crit_draw)
    /\ AttackStat(pokemon[1], pokemon[1].move_data[chosen[1]].damage_class, FALSE) = 150
    /\ DefenseStat(pokemon[2], pokemon[1].move_data[chosen[1]].damage_class, FALSE) = 100
    /\ IsOne(Stab(pokemon[1], pokemon[1].move_data[chosen[1]].type))
    /\ IsOne(CalculateTypeEffectiveness(pokemon[1].move_data[chosen[1]].type, pokemon[2].types))
    /\ IsOne(GetWeatherMultiplier(engine, pokemon[1].move_data[chosen[1]].type))
    /\ IsOne(GetTerrainMultiplier(engine, pokemon[1].move_data[chosen[1]].type))
    /\ pokemon[1].held_item = "none"
    /\ random_factor = RandomFactorHi

\* the call computes the base damage n and returns it as the damage
RegressionDamage(n) ==
    \A crit_draw \in RandomDraws, random_factor \in RandomFactors :
        (/\ RegressionCall(crit_draw, random_factor)
         /\ ret' = CalculateDamage(engine, pokemon[1], pokemon[2], chosen[1],
                                   crit_draw, random_factor))
        => /\ BaseDamage(50, 100, 150, 100)[1] = n * BaseDamage(50, 100, 150, 100)[2]
           /\ ret'.damage = n

\* C30 as stated: for level 50, power 100, attack 150, defense 100 and every
\* multiplier equal to 1, the base damage of the damage formula is 65
C30_BaseDamage65 == [][RegressionDamage(65)]_vars

\* C30, amended: for level 50, power 100, attack 150, defense 100 and every
\* multiplier equal to 1, the base damage of the damage formula is 68
C30_BaseDamage68 == [][RegressionDamage(68)]_vars

\* an earthquake by a level-50 attacker with attack 150 on a defender with
\* defense 100, neutral, without STAB, critical hit, field or item, at random
\* factor 1.0, was returned
C30_Witness ==
    /\ pc = "called"
    /\ chosen[1] = "earthquake"
    /\ pokemon[1].level = 50
    /\ pokemon[1].stats["attack"] = 150
    /\ pokemon[2].stats["defense"] = 100
    /\ pokemon[1].stat_modifiers["attack"] = 0
    /\ pokemon[2].stat_modifiers["defense"] = 0
    /\ pokemon[1].status = "none"
    /\ engine.weather = "none"
    /\ engine.terrain = "none"
    /\ ~ret.is_critical
    /\ ret.damage = 68

\* floor((2*base + iv + floor(ev/4)) * level / 100) + level + 10
StatedHP(args) ==
    Floor(<<(2 * args.base_stat + args.iv + Floor(<<args.ev, 4>>)) * args.level, 100>>)
    + args.level + 10

\* floor((2*base + iv + floor(ev/4)) * level / 100 + 5)
StatedOther(args) ==
    Floor(<<(2 * args.base_stat + args.iv + Floor(<<args.ev, 4>>)) * args.level + 5 * 100, 100>>)

\* the stats of pk are those stated for args
StatsAsStated(pk, args) ==
    \A s \in DOMAIN pk.stats :
        pk.stats[s] = IF s = "hp" THEN StatedHP(args) ELSE StatedOther(args)

\* C31: _calculate_stats gives HP = floor((2*base + iv + floor(ev/4)) * level / 100)
\* + level + 10 and every other stat = floor((2*base + iv + floor(ev/4)) * level
\* / 100 + 5); base 100, IV 31, EV 0, level 50 gives HP 175
C31_StatFormula ==
    pc = "made"
    => /\ StatsAsStated(pokemon[1], ret[1])
       /\ StatsAsStated(pokemon[2], ret[2])
       /\ (ret[1] = StatArgs(100, MaxIV, 0, 50) => pokemon[1].stats["hp"] = 175)

\* a Pokemon of base stat 100, IV 31, EV 0 and level 50 was constructed with HP 175
C31_Witness ==
    /\ pc = "made"
    /\ ret[1] = StatArgs(100, MaxIV, 0, 50)
    /\ pokemon[1].stats["hp"] = 175
    /\ pokemon[1].max_hp = 175
    /\ pokemon[1].current_hp = 175

\* C32: each calculated stat is non-decreasing in iv, in ev and in level, the
\* other inputs held fixed
C32_Monotonic ==
    (/\ pc = "made"
     /\ \/ ret[1].iv = ret[2].iv /\ ret[1].ev = ret[2].ev
        \/ ret[1].iv = ret[2].iv /\ ret[1].level = ret[2].level
        \/ ret[1].ev = ret[2].ev /\ ret[1].level = ret[2].level)
    => \A s \in DOMAIN pokemon[1].stats : pokemon[1].stats[s] <= pokemon[2].stats[s]

\* a higher level alone, a higher IV alone and a higher EV alone each raised a stat
C32_Witness ==
    /\ pc = "made"
    /\ ret[1].iv = ret[2].iv
    /\ ret[1].ev = ret[2].ev
    /\ ret[1].level < ret[2].level
    /\ pokemon[1].stats["attack"] < pokemon[2].stats["attack"]
    /\ pokemon[1].stats["hp"] < pokemon[2].stats["hp"]

\* the attacker of the call is asleep, or is frozen and its thaw roll fails
AsleepOrFrozen ==
    /\ pc = "use"
    /\ \/ pokemon[1].status = "sleep"
       \/ pokemon[1].status = "freeze" /\ ret'.msg = "is frozen solid!"

\* C33 as stated: when the attacker is asleep, or is frozen and the thaw roll
\* fails, use_move executes no move and leaves both combatants' HP, status,
\* status_turns, stat stages, crit stage and flinch flags and the field unchanged
C33_NoAction ==
    [][AsleepOrFrozen => (~ret'.effects /\ pokemon' = pokemon /\ engine' = engine)]_vars

\* C33, amended: when the attacker is asleep, or is frozen and the thaw roll
\* fails, use_move executes no move and leaves both combatants and the field
\* unchanged, except that a flinch flag set on the attacker is cleared
C33_NoActionButFlinch ==
    [][AsleepOrFrozen
       => /\ ~ret'.effects
          /\ ret'.damage = 0
          /\ pokemon' = [pokemon EXCEPT ![1].flinch = FALSE]
          /\ engine' = engine]_vars

\* a sleeping attacker with its flinch flag set made the call with a damaging
\* move: it is still asleep with the same counter, the flag is cleared and the
\* defender is at full HP
C33_Witness ==
    /\ pc = "used"
    /\ chosen[1] = "thunderbolt"
    /\ chosen[1] \in DOMAIN pokemon[1].move_data
    /\ pokemon[1].status = "sleep"
    /\ pokemon[1].status_turns = 2
    /\ ret.msg = "flinched and couldn't move!"
    /\ ~pokemon[1].flinch
    /\ pokemon[2].current_hp = pokemon[2].max_hp

\* what a use_move call with the draws rnd returns, up to its move effects
UseMoveResult(pks, rnd) == UseMove(pks, engine, 1, 2, chosen[1], rnd)

\* the combatants and the field a use_move call with the draws rnd and ernd leaves
UseMoveOutcome(pks, rnd, ernd) ==
    FinishMove(UseMoveResult(pks, rnd), engine, 1, 2, chosen[1], ernd)

\* the attacker with no status
Unfrozen(pks) == [pks EXCEPT ![1].status = "none", ![1].status_turns = 0]

\* the call is made by a frozen attacker that reaches its thaw roll and thaws
ThawsAtCall(rnd) ==
    /\ pc = "use"
    /\ pokemon[1].status = "freeze"
    /\ ~IsFainted(pokemon[1])
    /\ ~pokemon[1].flinch
    /\ RandomBelow(rnd.thaw, 1, 5)

\* C34: when a frozen attacker's thaw roll succeeds, the call goes on with the
\* attacker's status none and status_turns 0, and executes the chosen move as
\* the same call by an attacker without status does: same result, same state of
\* both combatants and of the field
C34_ThawThenMove ==
    [][\A rnd \in UseMoveDraws(pokemon[1], pokemon[2], chosen[1]) :
          (/\ ThawsAtCall(rnd)
           /\ ret'.msg = UseMoveResult(pokemon, rnd).msg
           /\ ret'.damage = UseMoveResult(pokemon, rnd).damage)
          => /\ ret'.thawed
             /\ ret'.msg = UseMoveResult(Unfrozen(pokemon), rnd).msg
             /\ ret'.damage = UseMoveResult(Unfrozen(pokemon), rnd).damage
             /\ ret'.effects = UseMoveResult(Unfrozen(pokemon), rnd).effects
             /\ \A ernd \in MoveEffectDraws(chosen[1]) :
                   (/\ pokemon' = UseMoveOutcome(pokemon, rnd, ernd).pokemon
                    /\ engine' = UseMoveOutcome(pokemon, rnd, ernd).engine)
                   => /\ pokemon' = UseMoveOutcome(Unfrozen(pokemon), rnd, ernd).pokemon
                      /\ engine' = UseMoveOutcome(Unfrozen(pokemon), rnd, ernd).engine]_vars

\* a frozen attacker thawed and its thunderbolt went through the accuracy roll,
\* took HP from the defender and had its move effects applied
C34_Witness ==
    /\ pc = "used"
    /\ ret.thawed
    /\ chosen[1] = "thunderbolt"
    /\ ret.msg = "used"
    /\ ret.effects
    /\ ret.damage > 0
    /\ pokemon[1].status = "none"
    /\ pokemon[1].status_turns = 0
    /\ pokemon[2].current_hp < pokemon[2].max_hp
    /\ pokemon[2].status = "paralysis"

\* the call ended at a missed accuracy roll
MissedAtCall == pc = "use" /\ ret'.msg = "attack missed!"

\* C35 as stated: when a move misses its accuracy roll in use_move, both
\* combatants and the weather/terrain state are exactly as before the call
C35_MissChangesNothing ==
    [][MissedAtCall => (~ret'.effects /\ pokemon' = pokemon /\ engine' = engine)]_vars

\* C35, amended: when a move misses its accuracy roll in use_move, both
\* combatants and the weather/terrain state are as before the call, except that
\* a frozen attacker that thawed in that call has status none and status_turns 0
C35_MissChangesNoMore ==
    [][MissedAtCall
       => /\ ~ret'.effects
          /\ ret'.damage = 0
          /\ pokemon' = (IF ret'.thawed THEN Unfrozen(pokemon) ELSE pokemon)
          /\ ret'.thawed = (pokemon[1].status = "freeze")
          /\ engine' = engine]_vars

\* a thunder-wave by an attacker that had just thawed missed: the defender has
\* no status and the HP it had at the call, one less than its maximum
C35_Witness ==
    /\ pc = "used"
    /\ chosen[1] = "thunder-wave"
    /\ ret.msg = "attack missed!"
    /\ ret.thawed
    /\ pokemon[1].status = "none"
    /\ pokemon[1].current_hp = pokemon[1].max_hp
    /\ pokemon[2].status = "none"
    /\ pokemon[2].current_hp = pokemon[2].max_hp - 1

TimedStatuses == {"sleep", "freeze", "confusion"}

\* the next step applies the effects of a Rest used by Pokemon i
RestTakesEffect(i) == EffectsUser = i /\ In("rest", EffectsMove)

\* C36: a timed status is temporary.  While a Pokemon is asleep, frozen or
\* confused its counter is within 1..4 and bounds the end-of-turn ticks the
\* status can still last: each tick of a non-fainted Pokemon ends the status or
\* lowers the counter, no other step raises it, and a Rest leaves its user asleep
\* with the counter at 2.  So the status is none again after at most 4 ticks,
\* and after at most 2 for the user of Rest
C36_TimedStatusEnds ==
    /\ [](\A i \in 1..2 : pokemon[i].status \in TimedStatuses
                               => pokemon[i].status_turns \in StatusTurnsLo..StatusTurnsHi)
    /\ [][\A i \in 1..2 :
             (pc = "end" /\ ~IsFainted(pokemon[i]) /\ pokemon[i].status \in TimedStatuses)
             => \/ pokemon'[i].status = "none"
                \/ /\ pokemon'[i].status = pokemon[i].status
                   /\ pokemon'[i].status_turns < pokemon[i].status_turns]_vars
    /\ [][\A i \in 1..2 :
             (/\ pc # "end"
              /\ ~RestTakesEffect(i)
              /\ pokemon[i].status \in TimedStatuses
              /\ pokemon'[i].status # "none")
             => /\ pokemon'[i].status = pokemon[i].status
                /\ pokemon'[i].status_turns <= pokemon[i].status_turns]_vars
    /\ [][\A i \in 1..2 :
             RestTakesEffect(i)
             => (pokemon'[i].status = "sleep" /\ pokemon'[i].status_turns = 2)]_vars

\* the fourth turn is at its end-of-turn phase with a Pokemon frozen by ice-beam
\* whose counter is 1: this tick is the last the freeze lasts
C36_Witness ==
    /\ pc = "end"
    /\ turn_count = StatusTurnsHi
    /\ pokemon[1].moves = <<"confuse-ray", "ice-beam">>
    /\ pokemon[2].status = "freeze"
    /\ pokemon[2].status_turns = 1
    /\ pokemon[2].current_hp > 0

\* C37: at every turn boundary of a battle (before its first turn, between two
\* turns and after its last) the weather is none exactly if weather_turns = 0,
\* the terrain is none exactly if terrain_turns = 0, and both counters are
\* within 0..4
C37_FieldAtTurnBoundary ==
    pc \in {"loop", "done"}
    => /\ (engine.weather = "none") <=> (engine.weather_turns = 0)
       /\ (engine.terrain = "none") <=> (engine.terrain_turns = 0)
       /\ engine.weather_turns \in 0..(FieldTurns - 1)
       /\ engine.terrain_turns \in 0..(FieldTurns - 1)

\* a turn in which psychic-terrain was used has ended: the terrain is there
\* with 4 turns left, and there is no weather
C37_Witness ==
    /\ pc = "loop"
    /\ turn_count > 0
    /\ engine.terrain = "psychic"
    /\ engine.terrain_turns = FieldTurns - 1
    /\ engine.weather = "none"
    /\ engine.weather_turns = 0

\* combatant i is at 0 HP at one of the points of the end-of-turn phase where a
\* heal is evaluated: when the phase begins, after its status damage (the held
\* item heal comes next), or after the weather damage (the terrain heal comes
\* next)
AtZeroBeforeHeal(i) ==
    \/ pokemon[i].current_hp = 0
    \/ StatusConditionDamage(pokemon[i]).current_hp = 0
    \/ ApplyWeatherEffects(engine, StatusDamagePhase(pokemon))[i].current_hp = 0

\* C38: no end-of-turn healing revives a combatant: one that is at 0 HP when
\* the held-item heal or the Grassy Terrain heal is evaluated, also after
\* status or weather damage of the same end-of-turn phase, is at 0 HP when the
\* turn ends
C38_NoRevival ==
    [][pc = "end" => \A i \in 1..2 : AtZeroBeforeHeal(i) => pokemon'[i].current_hp = 0]_vars

\* in a battle whose only damage is the sandstorm, the Pokemon it buffets has
\* fainted at the end of a turn with Grassy Terrain up
C38_Witness ==
    /\ pc \in {"loop", "done"}
    /\ pokemon[1].moves = <<"sandstorm">>
    /\ pokemon[2].current_hp = 0
    /\ engine.weather = "sandstorm"
    /\ engine.terrain = "grassy"

\* the defender of the use_move call the next step belongs to, 0 when the next
\* step is not part of one
UseMoveDefender ==
    IF pc \in {"first", "first_effects"} THEN order[2]
    ELSE IF pc \in {"second", "second_effects"} THEN order[1]
    ELSE 0

\* C39: use_move never changes a stat stage or the crit_stage of its defender,
\* whatever the move; and no stat stage of a combatant is ever negative in a
\* battle
C39_DefenderStagesKept ==
    /\ [][UseMoveDefender # 0
          => /\ pokemon'[UseMoveDefender].stat_modifiers = pokemon[UseMoveDefender].stat_modifiers
             /\ pokemon'[UseMoveDefender].crit_stage = pokemon[UseMoveDefender].crit_stage]_vars
    /\ [](\A i \in 1..2 : \A stat \in DOMAIN pokemon[i].stat_modifiers :
             pokemon[i].stat_modifiers[stat] >= 0)

\* quick-attack has hit and taken effect: its user's speed stage is raised,
\* the stages of the Pokemon it hit are as they were at the start
C39_Witness ==
    /\ pc \in {"second", "end"}
    /\ \E k \in 1..2 :
          /\ (pc = "second") <=> (k = 1)
          /\ chosen[order[k]] = "quick-attack"
          /\ pokemon[order[k]].stat_modifiers["speed"] > 0
          /\ pokemon[order[3 - k]].current_hp < pokemon[order[3 - k]].max_hp
          /\ \A stat \in DOMAIN pokemon[order[3 - k]].stat_modifiers :
                pokemon[order[3 - k]].stat_modifiers[stat] = 0
          /\ pokemon[order[3 - k]].crit_stage = 0

\* get_user_moves has returned 4 moves of available_moves, no two the same
ReturnedFour ==
    /\ pc = "returned"
    /\ Len(ret.moves) = 4
    /\ \A j, k \in 1..4 : j # k => ret.moves[j] # ret.moves[k]
    /\ \A k \in 1..4 : ret.moves[k] \in Elements(ret.available_moves)

\* C40 as stated: for every non-empty available_moves, lists with fewer than 4
\* moves included, and a user who goes on until lines are accepted,
\* get_user_moves returns, and what it returns is 4 different moves of
\* available_moves
C40_ReturnsFour ==
    /\ <>(pc = "returned")
    /\ [](pc = "returned" => ReturnedFour)

\* C40: for every available_moves with at least 4 different moves and a user
\* who goes on until lines are accepted, get_user_moves returns, and what it
\* returns is 4 different moves of available_moves; with fewer than 4
\* different moves it never returns
C40_ReturnsFourOfFourOrMore ==
    /\ (Cardinality(Elements(ret.available_moves)) >= 4) ~> (pc = "returned")
    /\ [](pc = "returned" => ReturnedFour)
    /\ [](Cardinality(Elements(ret.available_moves)) < 4 => pc # "returned")

\* four of five available moves have been returned, the last of the list
\* among them and not in the order of the list
C40_Witness ==
    /\ ReturnedFour
    /\ Len(ret.available_moves) = 5
    /\ ret.moves[1] = "splash"
    /\ ret.moves[4] = "tackle"

====
